---------------------------- MODULE Spec2Model ----------------------------
(***************************************************************************)
(* A model of one bot instance of the business bot: its SQLite store       *)
(* (database.py), the message handlers that drive it (bot.py) and the      *)
(* history formatter (utils.py).                                           *)
(*                                                                         *)
(* The messages table is a rowid table keyed by                            *)
(* "id INTEGER PRIMARY KEY AUTOINCREMENT" and the code holds no DELETE on  *)
(* it, so the table is modelled as a sequence whose index is the rowid;    *)
(* every row also carries its id column.                                   *)
(***************************************************************************)
EXTENDS Integers, Sequences, FiniteSets, TLC

VARIABLES
    messages,           \* table messages: sequence of rows, index = rowid
    sqlite_sequence,    \* AUTOINCREMENT counter of table messages
    whitelisted_chats,  \* table whitelisted_chats: set of chat_id
    gemini_client,      \* whether the instance holds a Gemini client (config)
    next_msg_id,        \* next message id the messaging service hands out
    tasks,              \* handler invocations suspended in call_gemini_api
    last,               \* what the last observed handler step did
    watch,              \* the handlers whose steps are observed in last
    capacity,           \* the number of records the log may grow to
    call,               \* the call of call_gemini_api that is followed step by step
    prompt,             \* the message text whose parsing is followed
    update,             \* the incoming event whose dispatch is followed
    bots,               \* the configured instances and the one that is running
    media_dir           \* the files of the download directory data/media

vars == <<messages, sqlite_sequence, whitelisted_chats, gemini_client,
          next_msg_id, tasks, last, watch, capacity, call, prompt, update, bots, media_dir>>

-----------------------------------------------------------------------------
(* Bounds of the model *)

MaxMessages == 2
FirstMsgId == 101

(* Program constants *)

DefaultLimit == 120
MaxLimit == 3000
DebugLimit == 10

-----------------------------------------------------------------------------
(* database.py: MessageImportance *)

GEMINI == "Gemini"
IMPORTANT == "Important"
DEFAULT == "None"

MessageImportance == {GEMINI, IMPORTANT, DEFAULT}

(* The environment: chats, senders, event fields *)

Chats == {42, 7}

\* message.from_user: the configured owner, another user, or absent
Users == {"owner", "other", "none"}

\* date.isoformat() as stored in column date, and its parse
isoformat(d) == <<"iso", d>>
fromisoformat(s) == s[2]

Min(a, b) == IF a <= b THEN a ELSE b

Reverse(s) == LET n == Len(s) IN [i \in 1..n |-> s[n + 1 - i]]

-----------------------------------------------------------------------------
(* database.py: the Database methods, as operators on table values *)

\* is_chat_whitelisted: SELECT 1 FROM whitelisted_chats WHERE chat_id = ?
is_chat_whitelisted(wl, chat_id) == chat_id \in wl

\* INSERT OR IGNORE without the check before it: the return value is True
\* whether or not the chat was there (a variant the contract of the
\* whitelist must reject)
add_chat_to_whitelist_unchecked(wl, chat_id) == <<wl \cup {chat_id}, TRUE>>

\* add_chat_to_whitelist: <<table after, return value>>
add_chat_to_whitelist(wl, chat_id) ==
    IF ~is_chat_whitelisted(wl, chat_id)
    THEN <<wl \cup {chat_id}, TRUE>>
    ELSE <<wl, FALSE>>

\* remove_chat_from_whitelist: <<table after, return value>>
remove_chat_from_whitelist(wl, chat_id) ==
    IF is_chat_whitelisted(wl, chat_id)
    THEN <<wl \ {chat_id}, TRUE>>
    ELSE <<wl, FALSE>>

\* create_tables: a row of table messages
Row(id, chat_id, message_id, author, date, content, tags, important) ==
    [id |-> id, chat_id |-> chat_id, message_id |-> message_id, author |-> author,
     date |-> date, content |-> content, tags |-> tags, important |-> important]

\* INSERT OR REPLACE keyed by chat: a new message takes the place of the
\* chat's newest record (a variant the append-only property must reject)
store_message_replacing(msgs, seq, chat_id, message_id, author, date, content, tags, importance) ==
    LET same == {i \in 1..Len(msgs) : msgs[i].chat_id = chat_id}
        newest == CHOOSE i \in same : \A j \in same : j <= i
    IN  IF same = {}
        THEN Append(msgs, Row(seq + 1, chat_id, message_id, author, isoformat(date),
                              content, tags, importance))
        ELSE [msgs EXCEPT ![newest] = Row(newest, chat_id, message_id, author,
                                          isoformat(date), content, tags, importance)]

\* id INTEGER PRIMARY KEY without AUTOINCREMENT, filled by hand with the
\* largest rowid in use: the newest record's id is handed out again (a
\* variant the sequence property must reject)
store_message_reusing(msgs, seq, chat_id, message_id, author, date, content, tags, importance) ==
    Append(msgs, Row(seq, chat_id, message_id, author, isoformat(date), content,
                     tags, importance))

\* store_message: INSERT INTO messages; AUTOINCREMENT hands out seq + 1
store_message(msgs, seq, chat_id, message_id, author, date, content, tags, importance) ==
    Append(msgs, Row(seq + 1, chat_id, message_id, author, isoformat(date), content,
                     tags, importance))

\* SELECT message_id, author, date, content, tags, important: of one row,
\* and of each row of a result
Columns(r) == <<r.message_id, r.author, r.date, r.content, r.tags, r.important>>
Select(rows) == LET n == Len(rows) IN [i \in 1..n |-> Columns(rows[i])]

\* a query without its ORDER BY: rows come in rowid order (a variant the
\* ordering properties must reject)
OrderByRowid(rows) == rows

\* ORDER BY date DESC, id DESC: the rows by their timestamps (a variant the
\* ordering by sequence id must reject)
OrderByDateDesc(rows) ==
    SortSeq(rows, LAMBDA a, b : \/ fromisoformat(a.date) > fromisoformat(b.date)
                               \/ (fromisoformat(a.date) = fromisoformat(b.date)
                                      /\ a.id > b.id))

\* ORDER BY id DESC: the selected rows, which SelectSeq leaves in rowid order,
\* walked backwards
OrderByIdDesc(rows) == Reverse(rows)

\* a query without its LIMIT (a variant the window properties must reject)
NoLimit(rows, n) == rows

\* a LIMIT that reads a negative number as 0 (a variant the properties of
\* negative limits must reject)
LimitFromZero(rows, n) == SubSeq(rows, 1, IF n < 0 THEN 0 ELSE Min(n, Len(rows)))

\* LIMIT ?: SQLite reads a negative LIMIT as no limit
Limit(rows, n) == IF n < 0 THEN rows ELSE SubSeq(rows, 1, Min(n, Len(rows)))

\* WHERE important='Important' alone: the important records of every chat
\* (a variant the separation of chats must reject)
ImportantRowsOfAllChats(msgs, chat_id) ==
    OrderByIdDesc(SelectSeq(msgs, LAMBDA r : r.important = IMPORTANT))

\* WHERE chat_id=? AND important='Important' ORDER BY id DESC
ImportantRows(msgs, chat_id) ==
    OrderByIdDesc(SelectSeq(msgs,
                            LAMBDA r : r.chat_id = chat_id /\ r.important = IMPORTANT))

\* WHERE chat_id=? AND important IN ('None', 'Gemini') ORDER BY id DESC LIMIT ?
NormalRows(msgs, chat_id, limit) ==
    Limit(OrderByIdDesc(SelectSeq(msgs,
              LAMBDA r : r.chat_id = chat_id /\ r.important \in {DEFAULT, GEMINI})),
          limit)

\* important_messages + normal_messages (a variant the tier order must reject)
get_last_messages_important_first(msgs, chat_id, limit) ==
    Select(ImportantRows(msgs, chat_id))
        \o Select(NormalRows(msgs, chat_id, limit))

\* get_last_messages: normal_messages + important_messages
get_last_messages(msgs, chat_id, limit) ==
    Select(NormalRows(msgs, chat_id, limit))
        \o Select(ImportantRows(msgs, chat_id))

\* get_pinned_messages: SELECT id, message_id, author, date, content
get_pinned_messages(msgs, chat_id) ==
    LET rows == ImportantRows(msgs, chat_id)
    IN  [i \in 1..Len(rows) |->
            <<rows[i].id, rows[i].message_id, rows[i].author, rows[i].date,
              rows[i].content>>]

\* UPDATE ... WHERE id=? (a variant the importance transitions must reject)
unpin_message_any_flag(msgs, db_id) ==
    LET n == Len(msgs)
    IN  <<[i \in 1..n |->
              IF msgs[i].id = db_id THEN [msgs[i] EXCEPT !.important = DEFAULT]
                                    ELSE msgs[i]],
          \E i \in 1..n : msgs[i].id = db_id>>

\* UPDATE ... WHERE id<=? AND important='Important' (a variant the unpin
\* contract must reject)
unpin_message_up_to(msgs, db_id) ==
    LET n == Len(msgs)
        Where(r) == r.id <= db_id /\ r.important = IMPORTANT
    IN  <<[i \in 1..n |->
              IF Where(msgs[i]) THEN [msgs[i] EXCEPT !.important = DEFAULT] ELSE msgs[i]],
          \E i \in 1..n : Where(msgs[i])>>

\* unpin_message: UPDATE ... WHERE id=? AND important='Important';
\* <<table after, rowcount > 0>>
unpin_message(msgs, db_id) ==
    LET n == Len(msgs)
        Where(r) == r.id = db_id /\ r.important = IMPORTANT
    IN  <<[i \in 1..n |->
              IF Where(msgs[i]) THEN [msgs[i] EXCEPT !.important = DEFAULT] ELSE msgs[i]],
          \E i \in 1..n : Where(msgs[i])>>

\* get_stats
get_stats(msgs, wl) ==
    [total_messages |-> Len(msgs),
     important_messages |-> Cardinality({i \in 1..Len(msgs) : msgs[i].important = IMPORTANT}),
     gemini_responses |-> Cardinality({i \in 1..Len(msgs) : msgs[i].important = GEMINI}),
     whitelisted_chats |-> Cardinality(wl),
     messages_by_chat |-> [c \in {msgs[i].chat_id : i \in 1..Len(msgs)} |->
                              Cardinality({i \in 1..Len(msgs) : msgs[i].chat_id = c})]]

-----------------------------------------------------------------------------
(* The incoming events (pyrogram Message), reduced to what the handlers read *)

\* message.text / message.caption: which of the two the message carries
Bodies == {"text", "caption", "none"}

\* the "!" command the text or caption starts with; "mark" is !Гемини / !гемини
Commands == {"enable", "disable", "stats", "pins", "unpin", "debug", "test",
             "media", "mark", "none"}

\* The argument the text carries: parts[1] of !unpin, or the N of a
\* !контекст=N token in the query part of a !test / гемини message.
\* kind "none": no argument; "bad": not a number; "int": the number n.
NoArg == [kind |-> "none", n |-> 0]
BadArg == [kind |-> "bad", n |-> 0]
IntArg(n) == [kind |-> "int", n |-> n]

UnpinIds == 1..(MaxMessages + 1)
RequestedLimits == {1}

Dates == {1, 2}

\* An event. me is filters.me (the account's own message); user is
\* message.from_user against the configured owner id; mentions is the regex
\* (?i)гемини on text or caption; has_media is "the replied-to message carries
\* supported media" (read by !media only).
Event(me, user, body, cmd, mentions, arg, date, has_media) ==
    [me |-> me, user |-> user, body |-> body, cmd |-> cmd, mentions |-> mentions,
     arg |-> arg, date |-> date, has_media |-> has_media]

UnpinArgs == {NoArg, BadArg} \cup {IntArg(n) : n \in UnpinIds}
LimitArgs == {NoArg, BadArg} \cup {IntArg(n) : n \in RequestedLimits}

\* The events the environment sends: a choice of inputs that gives every
\* handler the senders, bodies and arguments that tell its branches apart.
Events ==
    \* the owner's commands, from the owner's account
    {Event(TRUE, "owner", "text", c, FALSE, NoArg, 1, FALSE) :
        c \in {"enable", "disable", "stats", "pins", "debug"}}
    \cup {Event(TRUE, "owner", "text", "unpin", FALSE, a, 1, FALSE) : a \in UnpinArgs}
    \cup {Event(TRUE, "owner", "text", "test", FALSE, a, 1, FALSE) : a \in LimitArgs}
    \cup {Event(TRUE, "owner", "caption", c, FALSE, NoArg, 1, FALSE) :
            c \in {"unpin", "test"}}
    \cup {Event(TRUE, "owner", b, "mark", TRUE, NoArg, 1, FALSE) :
            b \in {"text", "caption"}}
    \* the same commands from an account that is not the configured owner
    \cup {Event(TRUE, "other", "text", c, c = "mark", NoArg, 1, FALSE) :
            c \in {"stats", "pins", "unpin", "mark"}}
    \* commands of the owner typed by somebody else
    \cup {Event(FALSE, "other", "text", c, c = "mark", NoArg, 1, FALSE) :
            c \in {"enable", "mark"}}
    \* !media, from anybody
    \cup {Event(u = "owner", u, "text", "media", FALSE, NoArg, 1, h) :
            u \in {"owner", "other"}, h \in BOOLEAN}
    \* messages that mention the trigger word
    \cup {Event(TRUE, "owner", "text", "none", TRUE, a, 1, FALSE) : a \in LimitArgs}
    \cup {Event(TRUE, "owner", "caption", "none", TRUE, NoArg, 1, FALSE)}
    \cup {Event(FALSE, u, "text", "none", TRUE, NoArg, 1, FALSE) : u \in {"other", "none"}}
    \* ordinary messages
    \cup {Event(TRUE, "owner", "text", "none", FALSE, NoArg, d, FALSE) : d \in Dates}
    \cup {Event(TRUE, "owner", b, "none", FALSE, NoArg, 1, FALSE) :
            b \in {"caption", "none"}}
    \cup {Event(FALSE, u, "text", "none", FALSE, NoArg, 1, FALSE) : u \in {"other", "none"}}

\* Python's None and "" as values of a text column
None == <<"None", 0>>
EmptyStr == <<"", 0>>

\* What a text says: the !Гемини command, another command, the trigger word,
\* or none of them
TextKind(m) ==
    CASE m.cmd = "mark" -> "!mark"
      [] m.cmd # "none" -> "!command"
      [] m.mentions -> "mention"
      [] OTHER -> "text"

\* message.text and message.caption (None when absent); id is message.id
text(m, id) == IF m.body = "text" THEN <<TextKind(m), id>> ELSE None
caption(m, id) == IF m.body = "caption" THEN <<"caption", id>> ELSE None
\* Python's `a or b` on optional strings
Or(a, b) == IF a \in {None, EmptyStr} THEN b ELSE a

\* message.from_user.first_name if message.from_user else "unknown"
first_name(m) == IF m.user = "owner" THEN "Owner" ELSE "Other"
author_of(m) == IF m.user # "none" THEN first_name(m) ELSE "unknown"

\* message.from_user and message.from_user.id == self.owner_id
\* a test of the sender that everybody passes (a variant the gate of the
\* whitelist must reject)
from_anyone(m) == TRUE

from_owner(m) == m.user = "owner"

\* utils.generate_tags: a captioned or text-less message carries a photo
generate_tags(m) == IF m.body # "text" THEN "contains photo" ELSE ""

\* Bot._register_handlers: the filter each handler is registered with
Matches(handler, m) ==
    CASE handler = "enable_command" -> m.me /\ m.cmd = "enable"
      [] handler = "disable_command" -> m.me /\ m.cmd = "disable"
      [] handler = "stats_command" -> m.me /\ m.cmd = "stats"
      [] handler = "pins_command" -> m.me /\ m.cmd = "pins"
      [] handler = "unpin_command" -> m.me /\ m.cmd = "unpin"
      [] handler = "debug_command" -> m.me /\ m.cmd = "debug"
      [] handler = "test_prompt_command" -> m.me /\ m.cmd = "test"
      [] handler = "media_command" -> m.cmd = "media"
      [] handler = "mark_important" -> m.me /\ m.cmd = "mark"
      [] handler = "process_gemini" -> m.mentions
      [] handler = "store_message" -> TRUE

\* the handlers in the order of their registration
Registration ==
    <<"enable_command", "disable_command", "stats_command", "pins_command",
      "unpin_command", "debug_command", "test_prompt_command", "media_command",
      "mark_important", "process_gemini", "store_message">>

\* the same handlers with the trigger registered before the owner's commands
\* (an order the dispatch must tell from the registered one)
TriggerFirst ==
    <<"process_gemini", "enable_command", "disable_command", "stats_command",
      "pins_command", "unpin_command", "debug_command", "test_prompt_command",
      "media_command", "mark_important", "store_message">>

\* the dispatcher of the messaging library on one group of handlers: the
\* first handler of order whose filter matches, and no other
DispatchIn(order, m) ==
    order[CHOOSE i \in 1..Len(order) :
              /\ Matches(order[i], m)
              /\ \A j \in 1..(i - 1) : ~Matches(order[j], m)]

DispatchTriggerFirst(m) == DispatchIn(TriggerFirst, m)

\* all handlers are registered in one group (the default), in this order
Dispatch(m) == DispatchIn(Registration, m)

\* update: the event that has arrived (pc "arrived") in chat chat_id, until
\* its handler has run (pc "handled"); n counts the events that have arrived
NoUpdate ==
    [pc |-> "none", chat_id |-> 0, n |-> 0,
     m |-> Event(FALSE, "none", "none", "none", FALSE, NoArg, 1, FALSE)]

EventsOf(handler) == {m \in Events : Dispatch(m) = handler}

EnableEvents == EventsOf("enable_command")
DisableEvents == EventsOf("disable_command")
StatsEvents == EventsOf("stats_command")
PinsEvents == EventsOf("pins_command")
UnpinEvents == EventsOf("unpin_command")
DebugEvents == EventsOf("debug_command")
TestEvents == EventsOf("test_prompt_command")
MediaEvents == EventsOf("media_command")
MarkEvents == EventsOf("mark_important")
GeminiEvents == EventsOf("process_gemini")
StoreEvents == EventsOf("store_message")

-----------------------------------------------------------------------------
(* bot.py: the handlers *)

\* What a handler step did: its name, the chat, the argument it parsed, what
\* it answered (ret), and for a retrieval the limit it passed to
\* get_last_messages and the rows it got back. last is a
\* history variable: a specification observes the handlers in watch and sees
\* NoObservation after a step of any other.
Observation(handler, chat_id, arg, ret, limit, rows) ==
    [handler |-> handler, chat_id |-> chat_id, arg |-> arg, ret |-> ret,
     limit |-> limit, rows |-> rows]

NoObservation == Observation("", 0, NoArg, "", 0, <<>>)

Observe(handler, chat_id, arg, ret, limit, rows) ==
    IF handler \in watch
    THEN Observation(handler, chat_id, arg, ret, limit, rows)
    ELSE NoObservation

\* A handler that awaits call_gemini_api stores its answer when it resumes:
\* the model starts one only while the table has room for what it will store
Room == capacity - Len(messages) - Len(tasks)

\* The message ids the messaging service hands out are distinct and no handler
\* compares or computes with them, so the model numbers a message when its
\* record is stored: FirstMsgId, FirstMsgId + 1, ... in the order of storing.
KeepId == next_msg_id' = next_msg_id + 1
DropId == UNCHANGED next_msg_id

\* the requested limit passed on as it is (a variant the ceiling must reject)
RequestedLimit(arg) ==
    IF arg.kind = "int" THEN arg.n ELSE DefaultLimit

\* process_gemini / test_prompt_command: context_limit from the !контекст=N
\* token; min(requested_limit, 3000), default 120
ContextLimit(arg) ==
    IF arg.kind = "int" THEN Min(arg.n, MaxLimit) ELSE DefaultLimit

enable_command(chat_id, m) ==
    LET r == add_chat_to_whitelist(whitelisted_chats, chat_id)
    IN  /\ whitelisted_chats' = r[1]
        /\ last' = Observe("enable_command", chat_id, NoArg,
                           IF r[2] THEN "enabled" ELSE "already enabled", 0, <<>>)
        /\ DropId
        /\ UNCHANGED <<messages, sqlite_sequence, gemini_client, tasks>>

disable_command(chat_id, m) ==
    LET r == remove_chat_from_whitelist(whitelisted_chats, chat_id)
    IN  /\ whitelisted_chats' = r[1]
        /\ last' = Observe("disable_command", chat_id, NoArg,
                           IF r[2] THEN "disabled" ELSE "already disabled", 0, <<>>)
        /\ DropId
        /\ UNCHANGED <<messages, sqlite_sequence, gemini_client, tasks>>

stats_command(chat_id, m) ==
    /\ last' = IF ~from_owner(m)
               THEN Observe("stats_command", 0, NoArg, "ignored", 0, <<>>)
               ELSE Observe("stats_command", 0, NoArg, "replied", 0,
                            <<get_stats(messages, whitelisted_chats)>>)
    /\ DropId
    /\ UNCHANGED <<messages, sqlite_sequence, whitelisted_chats, gemini_client, tasks>>

pins_command(chat_id, m) ==
    /\ last' = IF ~from_owner(m)
               THEN Observe("pins_command", 0, NoArg, "ignored", 0, <<>>)
               ELSE Observe("pins_command", chat_id, NoArg, "replied", 0,
                            get_pinned_messages(messages, chat_id))
    /\ DropId
    /\ UNCHANGED <<messages, sqlite_sequence, whitelisted_chats, gemini_client, tasks>>

\* ret "raised": message.text is None (the command came as a caption) and
\* message.text.split() raises; arg holds the db_id passed to unpin_message
unpin_command(chat_id, m) ==
    LET r == unpin_message(messages, m.arg.n)
        ret == CASE ~from_owner(m) -> "ignored"
                 [] m.body # "text" -> "raised"
                 [] m.arg.kind = "none" -> "usage"
                 [] m.arg.kind = "bad" -> "not a number"
                 [] OTHER -> IF r[2] THEN "unpinned" ELSE "not found"
    IN  /\ messages' = IF ret \in {"unpinned", "not found"} THEN r[1] ELSE messages
        /\ last' = Observe("unpin_command", 0,
                           IF ret \in {"unpinned", "not found"} THEN m.arg ELSE NoArg,
                           ret, 0, <<>>)
        /\ DropId
        /\ UNCHANGED <<sqlite_sequence, whitelisted_chats, gemini_client, tasks>>

\* a !debug that marks what it has shown as read by clearing the newest
\* important flag of the chat (a variant the read-only property must reject)
debug_command_clearing(chat_id, m) ==
    LET pinned == get_pinned_messages(messages, chat_id)
    IN  /\ last' = Observe("debug_command", chat_id, NoArg, "replied", DebugLimit,
                           get_last_messages(messages, chat_id, DebugLimit))
        /\ messages' = IF pinned = <<>> THEN messages
                                        ELSE unpin_message(messages, pinned[1][1])[1]
        /\ DropId
        /\ UNCHANGED <<sqlite_sequence, whitelisted_chats, gemini_client, tasks>>

debug_command(chat_id, m) ==
    /\ last' = Observe("debug_command", chat_id, NoArg, "replied", DebugLimit,
                       get_last_messages(messages, chat_id, DebugLimit))
    /\ DropId
    /\ UNCHANGED <<messages, sqlite_sequence, whitelisted_chats, gemini_client, tasks>>

\* a !test that takes no window size from its text and retrieves with the
\* default (a variant the agreement with process_gemini must reject)
test_prompt_command_default_window(chat_id, m) ==
    /\ last' = IF m.body # "text"
               THEN Observe("test_prompt_command", 0, NoArg, "raised", 0, <<>>)
               ELSE Observe("test_prompt_command", chat_id, m.arg, "replied",
                            DefaultLimit,
                            get_last_messages(messages, chat_id, DefaultLimit))
    /\ DropId
    /\ UNCHANGED <<messages, sqlite_sequence, whitelisted_chats, gemini_client, tasks>>

\* ret "raised": message.text is None and `"," in query` raises
test_prompt_command(chat_id, m) ==
    /\ last' = IF m.body # "text"
               THEN Observe("test_prompt_command", 0, NoArg, "raised", 0, <<>>)
               ELSE Observe("test_prompt_command", chat_id, m.arg, "replied",
                            ContextLimit(m.arg),
                            get_last_messages(messages, chat_id, ContextLimit(m.arg)))
    /\ DropId
    /\ UNCHANGED <<messages, sqlite_sequence, whitelisted_chats, gemini_client, tasks>>

\* mark_important without its owner check (a variant the properties of
\* marking must reject)
mark_important_by_anyone(chat_id, m) ==
    /\ Room >= 1
    /\ messages' = store_message(messages, sqlite_sequence, chat_id, next_msg_id,
                                 first_name(m), m.date, text(m, next_msg_id),
                                 generate_tags(m), IMPORTANT)
    /\ sqlite_sequence' = sqlite_sequence + 1
    /\ last' = Observe("mark_important", 0, NoArg, "marked", 0, <<>>)
    /\ KeepId
    /\ UNCHANGED <<whitelisted_chats, gemini_client, tasks>>

mark_important(chat_id, m) ==
    /\ IF ~from_owner(m)
       THEN /\ last' = Observe("mark_important", 0, NoArg, "ignored", 0, <<>>)
            /\ DropId
            /\ UNCHANGED <<messages, sqlite_sequence>>
       ELSE /\ Room >= 1
            /\ messages' = store_message(messages, sqlite_sequence, chat_id, next_msg_id,
                                         first_name(m), m.date, text(m, next_msg_id),
                                         generate_tags(m), IMPORTANT)
            /\ sqlite_sequence' = sqlite_sequence + 1
            /\ last' = Observe("mark_important", 0, NoArg, "marked", 0, <<>>)
            /\ KeepId
    /\ UNCHANGED <<whitelisted_chats, gemini_client, tasks>>

\* Bot.store_message with an await before its INSERT: a step either takes
\* the arriving message and suspends, or resumes a suspended one and stores
\* it (a variant the arrival order must reject)
store_message_handler_suspending(chat_id, m) ==
    \/ /\ Room >= 1
       /\ tasks' = Append(tasks, [handler |-> "store_message", chat_id |-> chat_id,
                                  trigger |-> next_msg_id])
       /\ next_msg_id' = next_msg_id + 1
       /\ last' = NoObservation
       /\ UNCHANGED <<messages, sqlite_sequence, whitelisted_chats, gemini_client>>
    \/ \E i \in 1..Len(tasks) :
           /\ tasks[i].handler = "store_message"
           /\ tasks[i].chat_id = chat_id
           /\ tasks' = [j \in 1..(Len(tasks) - 1) |->
                           IF j < i THEN tasks[j] ELSE tasks[j + 1]]
           /\ messages' = store_message(messages, sqlite_sequence, chat_id,
                                        tasks[i].trigger, author_of(m), m.date,
                                        text(m, tasks[i].trigger), generate_tags(m), DEFAULT)
           /\ sqlite_sequence' = sqlite_sequence + 1
           /\ last' = NoObservation
           /\ UNCHANGED <<next_msg_id, whitelisted_chats, gemini_client>>

\* Bot.store_message without its test of text and caption: a message with
\* neither is stored with content "" (a variant the rule for messages
\* without content must reject)
store_message_handler_unfiltered(chat_id, m) ==
    /\ IF ~from_owner(m) /\ ~is_chat_whitelisted(whitelisted_chats, chat_id)
       THEN /\ last' = Observe("store_message", 0, NoArg, "ignored", 0, <<>>)
            /\ DropId
            /\ UNCHANGED <<messages, sqlite_sequence>>
       ELSE /\ Room >= 1
            /\ messages' = store_message(messages, sqlite_sequence, chat_id, next_msg_id,
                                         author_of(m), m.date,
                                         Or(Or(text(m, next_msg_id), caption(m, next_msg_id)),
                                            EmptyStr),
                                         generate_tags(m), DEFAULT)
            /\ sqlite_sequence' = sqlite_sequence + 1
            /\ last' = Observe("store_message", 0, NoArg,
                               IF m.body = "none" THEN "skipped" ELSE "stored", 0, <<>>)
            /\ KeepId
    /\ UNCHANGED <<whitelisted_chats, gemini_client, tasks>>

\* the catch-all handler Bot.store_message
store_message_handler(chat_id, m) ==
    /\ IF m.body = "none"
       THEN /\ last' = Observe("store_message", 0, NoArg, "skipped", 0, <<>>)
            /\ DropId
            /\ UNCHANGED <<messages, sqlite_sequence>>
       ELSE IF ~from_owner(m) /\ ~is_chat_whitelisted(whitelisted_chats, chat_id)
       THEN /\ last' = Observe("store_message", 0, NoArg, "ignored", 0, <<>>)
            /\ DropId
            /\ UNCHANGED <<messages, sqlite_sequence>>
       ELSE /\ Room >= 1
            /\ messages' = store_message(messages, sqlite_sequence, chat_id, next_msg_id,
                                         author_of(m), m.date,
                                         Or(Or(text(m, next_msg_id), caption(m, next_msg_id)),
                                            EmptyStr),
                                         generate_tags(m), DEFAULT)
            /\ sqlite_sequence' = sqlite_sequence + 1
            /\ last' = Observe("store_message", 0, NoArg, "stored", 0, <<>>)
            /\ KeepId
    /\ UNCHANGED <<whitelisted_chats, gemini_client, tasks>>

\* call_gemini_api returns the response text, or text that starts with the
\* error marker "Ошибка"; it raises nothing
Responses == {<<"response", 0>>, <<"Error", 0>>}
startswith_error(response) == response[1] = "Error"

\* A handler suspended in call_gemini_api: process_gemini with the rowid of
\* the triggering message it stored (trigger), or media_command (trigger 0).
\* pc and media_path are where a media_command stands whose steps are
\* followed one by one, and its local variable media_path.
Task(handler, chat_id, trigger) ==
    [handler |-> handler, chat_id |-> chat_id, trigger |-> trigger,
     pc |-> "suspended", media_path |-> None]

Remove(s, i) == [j \in 1..(Len(s) - 1) |-> IF j < i THEN s[j] ELSE s[j + 1]]

\* process_gemini with the retrieval before the store of the triggering
\* message, as test_prompt_command has it: the context lacks the trigger's
\* own query (a variant the order of query and context must reject)
process_gemini_retrieving_first(chat_id, m, replied) ==
    IF ~gemini_client
    THEN /\ last' = Observe("process_gemini", 0, NoArg, "no client", 0, <<>>)
         /\ DropId
         /\ UNCHANGED <<messages, sqlite_sequence, whitelisted_chats, gemini_client, tasks>>
    ELSE IF m.user = "none"
            \/ (~from_owner(m) /\ ~is_chat_whitelisted(whitelisted_chats, chat_id))
    THEN /\ last' = Observe("process_gemini", 0, NoArg, "ignored", 0, <<>>)
         /\ DropId
         /\ UNCHANGED <<messages, sqlite_sequence, whitelisted_chats, gemini_client, tasks>>
    ELSE LET stored == store_message(messages, sqlite_sequence, chat_id, next_msg_id,
                                     author_of(m), m.date,
                                     Or(text(m, next_msg_id), EmptyStr),
                                     generate_tags(m), DEFAULT)
             limit == ContextLimit(m.arg)
         IN  /\ Room >= 1
             /\ messages' = stored
             /\ sqlite_sequence' = sqlite_sequence + 1
             /\ KeepId
             /\ UNCHANGED <<whitelisted_chats, gemini_client>>
             /\ IF m.body # "text"                  \* `"," in None` raises
                THEN /\ last' = Observe("process_gemini", 0, NoArg, "raised", 0, <<>>)
                     /\ UNCHANGED tasks
                ELSE IF ~replied
                THEN /\ last' = Observe("process_gemini", chat_id, m.arg, "reply failed", limit,
                                        get_last_messages(messages, chat_id, limit))
                     /\ UNCHANGED tasks
                ELSE /\ Room >= 2
                     /\ last' = Observe("process_gemini", chat_id, m.arg, "thinking", limit,
                                        get_last_messages(messages, chat_id, limit))
                     /\ tasks' = Append(tasks, Task("process_gemini", chat_id,
                                                    sqlite_sequence + 1))

\* process_gemini that lets the event go on to the catch-all handler, as a
\* handler registered in a group of its own would: the trigger is stored a
\* second time (a variant the single store of an event must reject)
process_gemini_propagating(chat_id, m, replied) ==
    IF ~gemini_client
    THEN /\ last' = Observe("process_gemini", 0, NoArg, "no client", 0, <<>>)
         /\ DropId
         /\ UNCHANGED <<messages, sqlite_sequence, whitelisted_chats, gemini_client, tasks>>
    ELSE IF m.user = "none"
            \/ (~from_owner(m) /\ ~is_chat_whitelisted(whitelisted_chats, chat_id))
    THEN /\ last' = Observe("process_gemini", 0, NoArg, "ignored", 0, <<>>)
         /\ DropId
         /\ UNCHANGED <<messages, sqlite_sequence, whitelisted_chats, gemini_client, tasks>>
    ELSE LET once == store_message(messages, sqlite_sequence, chat_id, next_msg_id,
                                   author_of(m), m.date,
                                   Or(text(m, next_msg_id), EmptyStr),
                                   generate_tags(m), DEFAULT)
             stored == store_message(once, sqlite_sequence + 1, chat_id, next_msg_id,
                                     author_of(m), m.date,
                                     Or(text(m, next_msg_id), EmptyStr),
                                     generate_tags(m), DEFAULT)
             limit == ContextLimit(m.arg)
         IN  /\ Room >= 2
             /\ messages' = stored
             /\ sqlite_sequence' = sqlite_sequence + 2
             /\ KeepId
             /\ UNCHANGED <<whitelisted_chats, gemini_client>>
             /\ IF m.body # "text"                  \* `"," in None` raises
                THEN /\ last' = Observe("process_gemini", 0, NoArg, "raised", 0, <<>>)
                     /\ UNCHANGED tasks
                ELSE IF ~replied
                THEN /\ last' = Observe("process_gemini", chat_id, m.arg, "reply failed", limit,
                                        get_last_messages(stored, chat_id, limit))
                     /\ UNCHANGED tasks
                ELSE /\ Room >= 3
                     /\ last' = Observe("process_gemini", chat_id, m.arg, "thinking", limit,
                                        get_last_messages(stored, chat_id, limit))
                     /\ tasks' = Append(tasks, Task("process_gemini", chat_id,
                                                    sqlite_sequence + 1))

\* process_gemini up to the await other handlers can overtake: the checks,
\* the store of the triggering message, the retrieval and the "thinking"
\* reply. replied: whether message.reply came back (it raises otherwise).
process_gemini(chat_id, m, replied) ==
    IF ~gemini_client
    THEN /\ last' = Observe("process_gemini", 0, NoArg, "no client", 0, <<>>)
         /\ DropId
         /\ UNCHANGED <<messages, sqlite_sequence, whitelisted_chats, gemini_client, tasks>>
    ELSE IF m.user = "none"
            \/ (~from_owner(m) /\ ~is_chat_whitelisted(whitelisted_chats, chat_id))
    THEN /\ last' = Observe("process_gemini", 0, NoArg, "ignored", 0, <<>>)
         /\ DropId
         /\ UNCHANGED <<messages, sqlite_sequence, whitelisted_chats, gemini_client, tasks>>
    ELSE LET stored == store_message(messages, sqlite_sequence, chat_id, next_msg_id,
                                     author_of(m), m.date,
                                     Or(text(m, next_msg_id), EmptyStr),
                                     generate_tags(m), DEFAULT)
             limit == ContextLimit(m.arg)
         IN  /\ Room >= 1
             /\ messages' = stored
             /\ sqlite_sequence' = sqlite_sequence + 1
             /\ KeepId
             /\ UNCHANGED <<whitelisted_chats, gemini_client>>
             /\ IF m.body # "text"                  \* `"," in None` raises
                THEN /\ last' = Observe("process_gemini", 0, NoArg, "raised", 0, <<>>)
                     /\ UNCHANGED tasks
                ELSE IF ~replied
                THEN /\ last' = Observe("process_gemini", chat_id, m.arg, "reply failed", limit,
                                        get_last_messages(stored, chat_id, limit))
                     /\ UNCHANGED tasks
                ELSE /\ Room >= 2
                     /\ last' = Observe("process_gemini", chat_id, m.arg, "thinking", limit,
                                        get_last_messages(stored, chat_id, limit))
                     /\ tasks' = Append(tasks, Task("process_gemini", chat_id,
                                                    sqlite_sequence + 1))

\* process_gemini after call_gemini_api returned: the edit of the "thinking"
\* message, then the store of the response under that message's id and date.
\* edited: whether edit_text came back (with Markdown or, failing that,
\* plain); it raises otherwise.
process_gemini_done(i, response, edited) ==
    LET t == tasks[i]
    IN  /\ t.handler = "process_gemini"
        /\ tasks' = Remove(tasks, i)
        /\ IF edited
           THEN /\ messages' = store_message(messages, sqlite_sequence, t.chat_id,
                                             next_msg_id, "Gemini", 1, response, "", GEMINI)
                /\ sqlite_sequence' = sqlite_sequence + 1
                /\ KeepId
                /\ last' = Observe("process_gemini_done", t.chat_id, NoArg, "stored", 0,
                                   <<response>>)
           ELSE /\ last' = Observe("process_gemini_done", t.chat_id, NoArg, "raised", 0,
                                   <<response>>)
                /\ DropId
                /\ UNCHANGED <<messages, sqlite_sequence>>
        /\ UNCHANGED <<whitelisted_chats, gemini_client>>

\* media_command up to its "processing" reply (the event itself is never
\* stored)
media_command(chat_id, m) ==
    LET ret == CASE ~gemini_client -> "no client"
                 [] ~m.has_media -> "no media"
                 [] m.body # "text" -> "raised"      \* message.text is None
                 [] OTHER -> "processing"
    IN  /\ last' = Observe("media_command", 0, NoArg, ret, 0, <<>>)
        /\ IF ret = "processing"
           THEN /\ Room >= 1
                /\ tasks' = Append(tasks, Task("media_command", chat_id, 0))
           ELSE UNCHANGED tasks
        /\ DropId
        /\ UNCHANGED <<messages, sqlite_sequence, whitelisted_chats, gemini_client>>

\* What the rest of media_command runs into: the download fails, the file is
\* empty, call_gemini_api returns, or an await raises
MediaOutcomes == {"download failed", "empty file", "answered", "raised"}

\* the rest of media_command without its test of the error marker: whatever
\* call_gemini_api returned is stored (a variant the handling of a failed
\* call must reject)
media_command_done_storing_errors(i, outcome, response) ==
    LET t == tasks[i]
    IN  /\ t.handler = "media_command"
        /\ tasks' = Remove(tasks, i)
        /\ IF outcome = "answered"
           THEN /\ messages' = store_message(messages, sqlite_sequence, t.chat_id,
                                             next_msg_id, "Gemini Media Analysis", 1,
                                             response, "media_analysis", GEMINI)
                /\ sqlite_sequence' = sqlite_sequence + 1
                /\ KeepId
                /\ last' = Observe("media_command_done", t.chat_id, NoArg, "stored", 0,
                                   <<response>>)
           ELSE /\ last' = Observe("media_command_done", t.chat_id, NoArg, outcome, 0, <<>>)
                /\ DropId
                /\ UNCHANGED <<messages, sqlite_sequence>>
        /\ UNCHANGED <<whitelisted_chats, gemini_client>>

media_command_done(i, outcome, response) ==
    LET t == tasks[i]
    IN  /\ t.handler = "media_command"
        /\ tasks' = Remove(tasks, i)
        /\ IF outcome = "answered" /\ ~startswith_error(response)
           THEN /\ messages' = store_message(messages, sqlite_sequence, t.chat_id,
                                             next_msg_id, "Gemini Media Analysis", 1,
                                             response, "media_analysis", GEMINI)
                /\ sqlite_sequence' = sqlite_sequence + 1
                /\ KeepId
                /\ last' = Observe("media_command_done", t.chat_id, NoArg, "stored", 0,
                                   <<response>>)
           ELSE /\ last' = Observe("media_command_done", t.chat_id, NoArg, outcome, 0,
                                   IF outcome = "answered" THEN <<response>> ELSE <<>>)
                /\ DropId
                /\ UNCHANGED <<messages, sqlite_sequence>>
        /\ UNCHANGED <<whitelisted_chats, gemini_client>>

-----------------------------------------------------------------------------
(* ai_service.py: call_gemini_api with media files, step by step. A step   *)
(* ends at an await: files.upload, files.get, asyncio.sleep,               *)
(* generate_content and files.delete; what the service answers is the      *)
(* step's input. A file is named by its index in media_paths.              *)

\* _upload_and_wait_for_file: max_attempts
max_attempts == 30

\* file_status.state; every state but ACTIVE keeps the poll going
FileStates == {"ACTIVE", "PROCESSING", "FAILED"}

\* pc: where the call stands. attempt: the loop variable of the poll.
\* checks: the calls of files.get so far, state: what the last one reported.
\* file, error: what _upload_and_wait_for_file returned. generated: whether
\* generate_content has been requested. response: what call_gemini_api
\* returned. paths: len(media_paths), idx: the file the loop of
\* _upload_media_files is at, uploaded_files: its list. uploads: the files
\* files.upload has put on the backend, deletes: the calls of files.delete,
\* remote: the files on the backend now. The fields of a finished call stay
\* until the next one starts.
NoCall ==
    [pc |-> "idle", attempt |-> 0, checks |-> 0, state |-> "", file |-> FALSE,
     error |-> "", generated |-> FALSE, response |-> None,
     paths |-> 0, idx |-> 0, uploaded_files |-> <<>>, uploads |-> {},
     deletes |-> <<>>, remote |-> {}]

\* call_gemini_api entered with media_paths: the first await is files.upload
\* of the first file
call_gemini_api(media_paths) ==
    [NoCall EXCEPT !.pc = "upload", !.paths = media_paths, !.idx = 1]

\* files.upload returned (ok), or raised: `except Exception` returns
\* (None, "Ошибка при загрузке файла ...")
files_upload(c, ok) ==
    IF ok THEN [c EXCEPT !.pc = "check", !.uploads = @ \cup {c.idx},
                         !.remote = @ \cup {c.idx}]
          ELSE [c EXCEPT !.pc = "uploaded", !.error = "upload failed"]

\* a poll that does not return on ACTIVE, as if the state were compared
\* with another constant (a variant the poll's contract must reject)
files_get_never_active(c, ok, state) ==
    IF ~ok
    THEN [c EXCEPT !.pc = "uploaded", !.checks = @ + 1, !.error = "upload failed"]
    ELSE [c EXCEPT !.pc = "sleep", !.checks = @ + 1, !.state = state]

\* files.get inside the loop: it raised, it reported ACTIVE (return
\* uploaded_file, None), or it reported another state (asyncio.sleep next)
files_get(c, ok, state) ==
    IF ~ok
    THEN [c EXCEPT !.pc = "uploaded", !.checks = @ + 1, !.error = "upload failed"]
    ELSE IF state = "ACTIVE"
    THEN [c EXCEPT !.pc = "uploaded", !.checks = @ + 1, !.state = state, !.file = TRUE]
    ELSE [c EXCEPT !.pc = "sleep", !.checks = @ + 1, !.state = state]

\* asyncio.sleep(0.5) returned: the next attempt of range(max_attempts), or
\* the end of the loop and return None, "Файл ... не стал ACTIVE ..."
sleep(c) ==
    IF c.attempt + 1 < max_attempts
    THEN [c EXCEPT !.pc = "check", !.attempt = @ + 1]
    ELSE [c EXCEPT !.pc = "uploaded", !.attempt = @ + 1, !.error = "timeout"]

\* a call that goes on to generate_content whatever the upload returned (a
\* variant the handling of the upload's failure must reject)
upload_media_files_unchecked(c) == [c EXCEPT !.pc = "generate"]

\* where a call goes that has its response: _cleanup_uploaded_files returns
\* at once on an empty list
CleanupOrReturn(uploaded_files) == IF uploaded_files = <<>> THEN "returned" ELSE "cleanup"

\* _upload_media_files that returns the error of a file without cleaning up
\* the files uploaded before it (a variant the deletion of uploaded files
\* must reject)
upload_media_files_keeping(c) ==
    IF c.error # ""
    THEN [c EXCEPT !.pc = "returned", !.response = <<"Error", 0>>]
    ELSE IF c.idx < c.paths
    THEN [c EXCEPT !.pc = "upload", !.idx = @ + 1, !.attempt = 0, !.checks = 0,
                   !.state = "", !.file = FALSE,
                   !.uploaded_files = Append(@, c.idx)]
    ELSE [c EXCEPT !.pc = "generate", !.uploaded_files = Append(@, c.idx)]

\* _upload_and_wait_for_file returned to the loop of _upload_media_files:
\* with an error the files uploaded before are cleaned up and the call
\* returns f"Ошибка: {error}"; otherwise the file joins uploaded_files and
\* the next file is uploaded or, after the last, generate_content is next
upload_media_files(c) ==
    IF c.error # ""
    THEN [c EXCEPT !.pc = CleanupOrReturn(c.uploaded_files), !.response = <<"Error", 0>>]
    ELSE IF c.idx < c.paths
    THEN [c EXCEPT !.pc = "upload", !.idx = @ + 1, !.attempt = 0, !.checks = 0,
                   !.state = "", !.file = FALSE,
                   !.uploaded_files = Append(@, c.idx)]
    ELSE [c EXCEPT !.pc = "generate", !.uploaded_files = Append(@, c.idx)]

\* generate_content returned result.text, or raised: `except Exception`
\* returns "Ошибка при вызове Gemini API: ..."; then `finally` cleans up
\* the uploaded files
generate_content(c, ok) ==
    [c EXCEPT !.pc = CleanupOrReturn(c.uploaded_files), !.generated = TRUE,
              !.response = IF ok THEN <<"response", 0>> ELSE <<"Error", 0>>]

\* _cleanup_uploaded_files: files.delete of the next file of uploaded_files
\* returned (ok) or raised, which is logged; after the last file the call
\* returns
cleanup_uploaded_files(c, ok) ==
    LET f == c.uploaded_files[Len(c.deletes) + 1]
    IN  [c EXCEPT !.deletes = Append(@, f),
                  !.remote = IF ok THEN @ \ {f} ELSE @,
                  !.pc = IF Len(c.deletes) + 1 = Len(c.uploaded_files)
                         THEN "returned" ELSE "cleanup"]

-----------------------------------------------------------------------------
(* bot.py: what process_gemini and test_prompt_command make of the text of *)
(* a message. A text is a sequence of symbols, each standing for a piece   *)
(* of the string: "w" a word, " " a space, "," a comma, "A" and "B" the    *)
(* two halves "!конт" and "екст=" of the token's prefix, "1" a digit and   *)
(* "T" the flag "!думай".                                                  *)

Symbols == {"w", " ", ",", "A", "B", "1", "T"}
Digits == {"1"}

\* the models of ai_service.GeminiModel the handlers choose from
FLASH == "FLASH"
FLASH_THINKING == "FLASH_THINKING"

\* s[i..], s[..i]
From(s, i) == SubSeq(s, i, Len(s))
UpTo(s, i) == SubSeq(s, 1, i)

\* sub in s: the symbol occurs
In(sym, s) == \E i \in 1..Len(s) : s[i] = sym

\* s.split(sep, 1)[1]: what follows the first sep
AfterFirst(s, sep) ==
    LET i == CHOOSE k \in 1..Len(s) : s[k] = sep /\ \A j \in 1..(k - 1) : s[j] # sep
    IN  From(s, i + 1)

\* str.strip(): without the spaces at both ends
RECURSIVE lstrip(_)
lstrip(s) == IF s # <<>> /\ s[1] = " " THEN lstrip(Tail(s)) ELSE s
RECURSIVE rstrip(_)
rstrip(s) == IF s # <<>> /\ s[Len(s)] = " " THEN rstrip(UpTo(s, Len(s) - 1)) ELSE s
strip(s) == rstrip(lstrip(s))

\* "!контекст=" in query.lower()
HasPrefix(s) == \E i \in 1..(Len(s) - 1) : s[i] = "A" /\ s[i + 1] = "B"

\* the regex !контекст=(\d+) matches at i; the end of its greedy \d+
MatchAt(s, i) ==
    /\ i + 2 <= Len(s)
    /\ s[i] = "A"
    /\ s[i + 1] = "B"
    /\ s[i + 2] \in Digits
RECURSIVE DigitsEnd(_, _)
DigitsEnd(s, j) == IF j + 1 <= Len(s) /\ s[j + 1] \in Digits THEN DigitsEnd(s, j + 1) ELSE j
MatchEnd(s, i) == DigitsEnd(s, i + 2)

\* re.search: where the leftmost match starts, 0 for None
re_search(s) ==
    IF \E i \in 1..Len(s) : MatchAt(s, i)
    THEN CHOOSE i \in 1..Len(s) : MatchAt(s, i) /\ \A j \in 1..(i - 1) : ~MatchAt(s, j)
    ELSE 0

\* int(match.group(1)): the decimal value of the digits
RECURSIVE int(_)
int(ds) == IF ds = <<>> THEN 0 ELSE 10 * int(UpTo(ds, Len(ds) - 1)) + 1

\* re.sub(token, '', query): one pass from the left that drops every match
\* and resumes behind it
RECURSIVE re_sub(_)
re_sub(s) ==
    IF s = <<>> THEN <<>>
    ELSE IF MatchAt(s, 1) THEN re_sub(From(s, MatchEnd(s, 1) + 1))
    ELSE <<s[1]>> \o re_sub(Tail(s))

\* the query: what follows the first comma, or else the first space
Query(t) ==
    IF In(",", t) THEN strip(AfterFirst(t, ","))
    ELSE IF In(" ", t) THEN strip(AfterFirst(t, " "))
    ELSE <<>>

\* a parsing that also drops the flag once the model is chosen (a variant
\* to compare the handlers' parsing with)
ParseWithoutFlag(t) ==
    LET q == Query(t)
        i == re_search(q)
        found == HasPrefix(q) /\ i # 0
        query == IF found THEN strip(re_sub(q)) ELSE q
    IN  [query |-> strip(SelectSeq(query, LAMBDA x : x # "T")),
         context_limit |-> IF found THEN Min(int(SubSeq(q, i + 2, MatchEnd(q, i))), MaxLimit)
                                    ELSE DefaultLimit,
         model |-> IF In("T", query) THEN FLASH_THINKING ELSE FLASH]

\* a parsing that takes the digits of a token for granted: a prefix that no
\* number follows gives the window size 0 (a variant the fallback to the
\* default must reject)
ParseUnguarded(t) ==
    LET q == Query(t)
        i == re_search(q)
        found == HasPrefix(q) /\ i # 0
        query == IF found THEN strip(re_sub(q)) ELSE q
    IN  [query |-> query,
         context_limit |-> IF found THEN Min(int(SubSeq(q, i + 2, MatchEnd(q, i))), MaxLimit)
                                    ELSE IF HasPrefix(q) THEN 0 ELSE DefaultLimit,
         model |-> IF In("T", query) THEN FLASH_THINKING ELSE FLASH]

\* the lines both handlers share: the query that goes into combined_query,
\* the limit passed to get_last_messages and the model
Parse(t) ==
    LET q == Query(t)
        i == re_search(q)
        found == HasPrefix(q) /\ i # 0
        query == IF found THEN strip(re_sub(q)) ELSE q
    IN  [query |-> query,
         context_limit |-> IF found THEN Min(int(SubSeq(q, i + 2, MatchEnd(q, i))), MaxLimit)
                                    ELSE DefaultLimit,
         model |-> IF In("T", query) THEN FLASH_THINKING ELSE FLASH]

\* prompt: the text of the message a handler is given (pc "received") and
\* what the handler made of it (pc the handler's name)
\* history, combined_query: what the handler formatted and what it built
NoPrompt ==
    [pc |-> "none", text |-> <<>>, parsed |-> Parse(<<>>), history |-> <<>>,
     combined_query |-> <<>>]

\* the argument of an event whose text is t, as the handlers read it
ArgOf(t) ==
    LET q == Query(t)
        i == re_search(q)
    IN  IF HasPrefix(q) /\ i # 0 THEN IntArg(int(SubSeq(q, i + 2, MatchEnd(q, i))))
        ELSE IF HasPrefix(q) THEN BadArg
        ELSE NoArg

-----------------------------------------------------------------------------
(* utils.py: format_chat_history. A string is the sequence of its pieces,  *)
(* the empty string the empty sequence; a piece is a literal of the        *)
(* f-string or the text of a value.                                        *)

\* "[СООБЩЕНИЕ ОТМЕЧЕНО ВАЖНЫМ] "
ImportantMarker == "[marked important] "

\* date_obj.strftime('%Y-%m-%d %H:%M:%S')
strftime(d) == ToString(<<"%Y-%m-%d %H:%M:%S", d>>)

\* f"{value}" of a text column: nothing for "", "None" for None, and the
\* text itself otherwise
Str(value) ==
    IF value = EmptyStr THEN <<>>
    ELSE IF value = None THEN <<"None">>
    ELSE <<ToString(value)>>

\* `if tags:` on column tags
Truthy(tags) == tags \notin {"", None}

\* one line, with no rule for the stored answers: the author is printed as
\* stored (a variant the rules of a line must reject)
LineAsStored(m) ==
    LET i == IF m[6] = IMPORTANT THEN <<ImportantMarker>> ELSE <<>>
        date_formatted == strftime(fromisoformat(m[3]))
    IN  IF Truthy(m[5])
        THEN i \o <<ToString(m[1]), " ", date_formatted, " ", m[2], " (", m[5], ")", ": ">> \o Str(m[4])
        ELSE i \o <<ToString(m[1]), " ", date_formatted, " ", m[2], ": ">> \o Str(m[4])

\* the body of the loop: the line of one row
\* (msg_id, author, date_str, content, tags, important)
Line(m) ==
    LET i == IF m[6] = IMPORTANT THEN <<ImportantMarker>> ELSE <<>>
        author == IF m[6] = GEMINI THEN "Gemini" ELSE m[2]
        date_formatted == strftime(fromisoformat(m[3]))
    IN  IF Truthy(m[5])
        THEN i \o <<ToString(m[1]), " ", date_formatted, " ", author, " (", m[5], ")", ": ">> \o Str(m[4])
        ELSE i \o <<ToString(m[1]), " ", date_formatted, " ", author, ": ">> \o Str(m[4])

\* "\n".join(lines)
RECURSIVE join(_)
join(lines) ==
    IF lines = <<>> THEN <<>>
    ELSE IF Len(lines) = 1 THEN lines[1]
    ELSE lines[1] \o <<"\n">> \o join(Tail(lines))

\* the lines in the order of the rows (a variant the order of the lines must
\* reject)
format_chat_history_unreversed(rows) ==
    join([k \in 1..Len(rows) |-> Line(rows[k])])

\* the lines joined with a newline after each of them (a variant the
\* formatting of an empty history must reject)
format_chat_history_terminated(rows) ==
    LET lines == [k \in 1..Len(rows) |-> Line(Reverse(rows)[k])]
    IN  join(lines) \o <<"\n">>

\* format_chat_history: for m in reversed(messages), one line each
format_chat_history(rows) ==
    LET reversed == Reverse(rows)
    IN  join([k \in 1..Len(rows) |-> Line(reversed[k])])

\* "\n\nТекущий запрос пользователя: "
Separator == "\n\nCurrent user query: "

\* combined_query = history + separator + query
combined_query(history, query) == history \o <<Separator>> \o query


-----------------------------------------------------------------------------
(* main.py: the configured instances. One instance runs at a time (the     *)
(* tasks of run_bot share one event loop); its database file, its Gemini   *)
(* client and its suspended handlers are the variables above, those of the *)
(* others are kept in bots.                                                *)

\* the values of database_path and gemini_api_key in config.json
Paths == {"a.db", "b.db"}
Keys == {"", "key"}

Config(database_path, gemini_api_key) ==
    [database_path |-> database_path, gemini_api_key |-> gemini_api_key]

\* one file for every instance, whatever its configuration says (a variant
\* the separation of the instances must reject)
db_path_fixed(config) == "a.db"

\* run_bot: db_path=config.get("database_path", ...); the key is required
db_path(config) == config.database_path

\* Bot.__init__: self.gemini_client is None without a key
GeminiClient(config) == config.gemini_api_key # ""

\* Database.__init__ on a path that does not exist yet: empty tables
EmptyFile == [messages |-> <<>>, sqlite_sequence |-> 0, whitelisted_chats |-> {}]

\* self: the instance that is running; configs: config.json; db: the files
\* by path; client, tasks, next_msg_id: the Gemini client, the suspended
\* handlers and the next message id of the account of each instance
NoBots ==
    [self |-> 0, configs |-> <<>>, db |-> <<>>, client |-> <<>>, tasks |-> <<>>,
     next_msg_id |-> <<>>]

\* the database file at path, and the file, client and suspended handlers
\* of instance j, as they are now
FileAt(path) ==
    IF bots.self # 0 /\ path = db_path(bots.configs[bots.self])
    THEN [messages |-> messages, sqlite_sequence |-> sqlite_sequence,
          whitelisted_chats |-> whitelisted_chats]
    ELSE bots.db[path]
FileOf(j) == FileAt(db_path(bots.configs[j]))
ClientOf(j) == IF j = bots.self THEN gemini_client ELSE bots.client[j]
TasksOf(j) == IF j = bots.self THEN tasks ELSE bots.tasks[j]

-----------------------------------------------------------------------------
(* The instance: Bot.__init__ on a fresh database, then events in any order *)

Handlers == {"enable_command", "disable_command", "stats_command", "pins_command",
             "unpin_command", "debug_command", "test_prompt_command", "media_command",
             "media_command_done", "mark_important", "process_gemini",
             "process_gemini_done", "store_message"}

InitWatching(w) ==
    /\ messages = <<>>
    /\ sqlite_sequence = 0
    /\ whitelisted_chats = {}
    /\ gemini_client \in BOOLEAN
    /\ next_msg_id = FirstMsgId
    /\ tasks = <<>>
    /\ last = NoObservation
    /\ watch = w
    /\ capacity = MaxMessages
    /\ call = NoCall
    /\ update = NoUpdate
    /\ bots = NoBots
    /\ media_dir = {}
    /\ prompt = NoPrompt

Init == InitWatching({})

EnableCommand == \E chat_id \in Chats, m \in EnableEvents : enable_command(chat_id, m) /\ UNCHANGED <<watch, capacity, call, prompt, update, bots, media_dir>>
DisableCommand == \E chat_id \in Chats, m \in DisableEvents : disable_command(chat_id, m) /\ UNCHANGED <<watch, capacity, call, prompt, update, bots, media_dir>>
StatsCommand == \E chat_id \in Chats, m \in StatsEvents : stats_command(chat_id, m) /\ UNCHANGED <<watch, capacity, call, prompt, update, bots, media_dir>>
PinsCommand == \E chat_id \in Chats, m \in PinsEvents : pins_command(chat_id, m) /\ UNCHANGED <<watch, capacity, call, prompt, update, bots, media_dir>>
UnpinCommand == \E chat_id \in Chats, m \in UnpinEvents : unpin_command(chat_id, m) /\ UNCHANGED <<watch, capacity, call, prompt, update, bots, media_dir>>
DebugCommand == \E chat_id \in Chats, m \in DebugEvents : debug_command(chat_id, m) /\ UNCHANGED <<watch, capacity, call, prompt, update, bots, media_dir>>
TestPromptCommand ==
    \E chat_id \in Chats, m \in TestEvents : test_prompt_command(chat_id, m) /\ UNCHANGED <<watch, capacity, call, prompt, update, bots, media_dir>>
MarkImportant == \E chat_id \in Chats, m \in MarkEvents : mark_important(chat_id, m) /\ UNCHANGED <<watch, capacity, call, prompt, update, bots, media_dir>>
StoreMessage == \E chat_id \in Chats, m \in StoreEvents : store_message_handler(chat_id, m) /\ UNCHANGED <<watch, capacity, call, prompt, update, bots, media_dir>>
ProcessGemini ==
    \E chat_id \in Chats, m \in GeminiEvents, replied \in BOOLEAN :
        process_gemini(chat_id, m, replied) /\ UNCHANGED <<watch, capacity, call, prompt, update, bots, media_dir>>
ProcessGeminiDone ==
    \E i \in 1..Len(tasks), response \in Responses, edited \in BOOLEAN :
        process_gemini_done(i, response, edited) /\ UNCHANGED <<watch, capacity, call, prompt, update, bots, media_dir>>
MediaCommand == \E chat_id \in Chats, m \in MediaEvents : media_command(chat_id, m) /\ UNCHANGED <<watch, capacity, call, prompt, update, bots, media_dir>>
MediaCommandDone ==
    \E i \in 1..Len(tasks), outcome \in MediaOutcomes, response \in Responses :
        media_command_done(i, outcome, response) /\ UNCHANGED <<watch, capacity, call, prompt, update, bots, media_dir>>

Next ==
    \/ EnableCommand
    \/ DisableCommand
    \/ StatsCommand
    \/ PinsCommand
    \/ UnpinCommand
    \/ DebugCommand
    \/ TestPromptCommand
    \/ MarkImportant
    \/ StoreMessage
    \/ ProcessGemini
    \/ ProcessGeminiDone
    \/ MediaCommand
    \/ MediaCommandDone

Spec == Init /\ [][Next]_vars

-----------------------------------------------------------------------------
(* The instance reopened on a database file that earlier runs have filled  *)
(* (Database.__init__ creates the tables only IF NOT EXISTS), with the     *)
(* retrieval of Database.get_last_messages applied to it over a wide range *)
(* of limits.                                                              *)

StoreLen == 2
BulkLen == 150
BulkExtra == 1

\* What the handlers store: an ordinary message, a message marked important,
\* a stored answer
Kinds == {[chat_id |-> 42, important |-> DEFAULT],
          [chat_id |-> 42, important |-> IMPORTANT],
          [chat_id |-> 42, important |-> GEMINI],
          [chat_id |-> 7, important |-> DEFAULT],
          [chat_id |-> 7, important |-> IMPORTANT]}

\* The row a handler stored as the id-th record of the table
StoredRow(id, kind) ==
    IF kind.important = GEMINI
    THEN Row(id, kind.chat_id, FirstMsgId + id - 1, "Gemini", isoformat(1),
             <<"response", 0>>, "", GEMINI)
    ELSE Row(id, kind.chat_id, FirstMsgId + id - 1, "Owner", isoformat(1),
             <<IF kind.important = IMPORTANT THEN "!mark" ELSE "text",
               FirstMsgId + id - 1>>,
             "", kind.important)

SmallStores ==
    UNION {{[i \in 1..n |-> StoredRow(i, ks[i])] : ks \in [1..n -> Kinds]} :
              n \in 0..StoreLen}

\* five records of chat 42, the second of them marked important
ExampleStore ==
    [i \in 1..5 |->
        StoredRow(i, [chat_id |-> 42,
                      important |-> IF i = 2 THEN IMPORTANT ELSE DEFAULT])]

\* six records of two chats: ordinary messages, marked messages and a stored
\* answer, interleaved
MixedStore ==
    [i \in 1..6 |->
        StoredRow(i, [chat_id |-> IF i \in {2, 5} THEN 7 ELSE 42,
                      important |-> CASE i \in {2, 4} -> IMPORTANT
                                      [] i = 3 -> GEMINI
                                      [] OTHER -> DEFAULT])]

\* n ordinary records of chat 42
BulkStore(n) == [i \in 1..n |-> StoredRow(i, [chat_id |-> 42, important |-> DEFAULT])]

BulkStores == {BulkStore(BulkLen), BulkStore(MaxLimit + BulkExtra)}

\* the N of !контекст=N: the regex \d+ reads no sign
WideLimits == {0, 1, 2, DefaultLimit, MaxLimit, MaxLimit + 2000}
WideLimitArgs == {NoArg, BadArg} \cup {IntArg(n) : n \in WideLimits}

\* the limit a caller of Database.get_last_messages may pass: any int
DirectLimits == WideLimits \cup {-1, -MaxLimit, 3, DebugLimit}

WideTestEvents == {Event(TRUE, "owner", "text", "test", FALSE, a, 1, FALSE) :
                      a \in WideLimitArgs}
WideGeminiEvents == {Event(TRUE, "owner", "text", "none", TRUE, a, 1, FALSE) :
                        a \in WideLimitArgs}
WideUnpinEvents == {Event(TRUE, "owner", "text", "unpin", FALSE, IntArg(n), 1, FALSE) :
                       n \in 0..(StoreLen + 4)}

\* The small stores are observed at every retrieval and unpin, the bulk
\* stores at the retrievals of !test
InitStore ==
    /\ \/ /\ messages \in SmallStores \cup {ExampleStore, MixedStore}
          /\ watch = {"get_last_messages", "debug_command", "test_prompt_command",
                      "process_gemini", "unpin_command"}
       \/ /\ messages \in BulkStores
          /\ watch = {"test_prompt_command"}
    /\ sqlite_sequence = Len(messages)
    /\ whitelisted_chats = {}
    /\ gemini_client = TRUE
    /\ next_msg_id = FirstMsgId + Len(messages)
    /\ tasks = <<>>
    /\ last = NoObservation
    /\ capacity = MaxMessages
    /\ call = NoCall
    /\ update = NoUpdate
    /\ bots = NoBots
    /\ media_dir = {}
    /\ prompt = NoPrompt

\* a call of Database.get_last_messages(chat_id, limit)
GetLastMessages ==
    \E chat_id \in Chats, limit \in DirectLimits :
        /\ last' = Observe("get_last_messages", chat_id, IntArg(limit), "returned", limit,
                           get_last_messages(messages, chat_id, limit))
        /\ UNCHANGED <<messages, sqlite_sequence, whitelisted_chats, gemini_client,
                       next_msg_id, tasks, watch, capacity, call, prompt, update, bots, media_dir>>

TestPromptCommandWide ==
    \E chat_id \in Chats, m \in WideTestEvents :
        Dispatch(m) = "test_prompt_command" /\ test_prompt_command(chat_id, m)
        /\ UNCHANGED <<watch, capacity, call, prompt, update, bots, media_dir>>

ProcessGeminiWide ==
    \E chat_id \in Chats, m \in WideGeminiEvents, replied \in BOOLEAN :
        Dispatch(m) = "process_gemini" /\ process_gemini(chat_id, m, replied)
        /\ UNCHANGED <<watch, capacity, call, prompt, update, bots, media_dir>>

UnpinCommandWide ==
    \E chat_id \in Chats, m \in WideUnpinEvents :
        Dispatch(m) = "unpin_command" /\ unpin_command(chat_id, m)
        /\ UNCHANGED <<watch, capacity, call, prompt, update, bots, media_dir>>

NextStore ==
    \/ GetLastMessages
    \/ DebugCommand
    \/ TestPromptCommandWide
    \/ ProcessGeminiWide
    \/ ProcessGeminiDone
    \/ UnpinCommandWide

SpecStore == InitStore /\ [][NextStore]_vars

-----------------------------------------------------------------------------
(* Retrieval: what an observed retrieval returned, set against the table   *)

\* the handlers that call get_last_messages, and the call itself
Retrievals == {"get_last_messages", "debug_command", "test_prompt_command",
               "process_gemini"}

\* the last step retrieved rows of chat last.chat_id with limit last.limit
IsRetrieval == last.handler \in Retrievals /\ last.chat_id \in Chats

IsNormal(row) == row[6] \in {DEFAULT, GEMINI}
IsImportant(row) == row[6] = IMPORTANT

\* the two groups of a result
RecentTier == SelectSeq(last.rows, IsNormal)
ImportantTier == SelectSeq(last.rows, IsImportant)

\* the rowid of the record a returned row was read from: records are numbered
\* FirstMsgId, FirstMsgId + 1, ... in the order of storing
IdOf(row) == row[1] - FirstMsgId + 1

\* row is the projection of a record of chat c whose flag is in flags
IsRecordOf(row, c, flags) ==
    /\ IdOf(row) \in 1..Len(messages)
    /\ Columns(messages[IdOf(row)]) = row
    /\ messages[IdOf(row)].chat_id = c
    /\ messages[IdOf(row)].important \in flags

NormalIds(c) ==
    {i \in 1..Len(messages) :
        messages[i].chat_id = c /\ messages[i].important \in {DEFAULT, GEMINI}}
ImportantIds(c) ==
    {i \in 1..Len(messages) : messages[i].chat_id = c /\ messages[i].important = IMPORTANT}

\* rowids strictly falling along a sequence of returned rows
IdDescending(rows) == \A j \in 1..(Len(rows) - 1) : IdOf(rows[j]) > IdOf(rows[j + 1])

\* C1: for every chat and every window size W in 1..3000, a retrieval returns
\* at most W records that are Default or AIResponse, plus exactly all the
\* Important records of the chat, and no record is in both groups.
C1_WindowAndImportant ==
    (IsRetrieval /\ last.limit \in 1..MaxLimit) =>
        LET c == last.chat_id
            recent == RecentTier
            important == ImportantTier
        IN  /\ Len(recent) <= last.limit
            /\ \A j \in 1..Len(recent) : IsRecordOf(recent[j], c, {DEFAULT, GEMINI})
            /\ \A j \in 1..Len(important) : IsRecordOf(important[j], c, {IMPORTANT})
            /\ {IdOf(important[j]) : j \in 1..Len(important)} = ImportantIds(c)
            /\ Len(important) = Cardinality(ImportantIds(c))
            /\ Len(last.rows) = Len(recent) + Len(important)
            /\ Cardinality({IdOf(last.rows[j]) : j \in 1..Len(last.rows)}) = Len(last.rows)

\* a window that cuts the Default/AIResponse records of a chat that also has
\* Important records
C1_Witness ==
    /\ IsRetrieval
    /\ last.limit \in 1..MaxLimit
    /\ Len(RecentTier) = last.limit
    /\ Cardinality(NormalIds(last.chat_id)) > last.limit
    /\ Len(ImportantTier) > 0

\* C2: the recent tier of a retrieval with window W is exactly the min(W, n)
\* records with the highest rowids among the n Default/AIResponse records of
\* the chat, and the result holds min(n, W) + important_count records; with
\* 150 Default records and W = 120 these are exactly the 120 newest.
C2_RecentTierIsNewest ==
    (IsRetrieval /\ last.limit >= 0) =>
        LET c == last.chat_id
            recent == RecentTier
            n == Cardinality(NormalIds(c))
            k == Min(last.limit, n)
        IN  /\ Len(recent) = k
            /\ \A j \in 1..k : IsRecordOf(recent[j], c, {DEFAULT, GEMINI})
            /\ IdDescending(recent)
            /\ k > 0 => Cardinality({i \in NormalIds(c) : i >= IdOf(recent[k])}) = k
            /\ Len(last.rows) = k + Cardinality(ImportantIds(c))

\* BulkLen Default records read with the default window: the newest
\* DefaultLimit of them, down to record BulkLen - DefaultLimit + 1
C2_Witness ==
    /\ IsRetrieval
    /\ Len(messages) = BulkLen
    /\ last.chat_id = 42
    /\ last.limit = DefaultLimit
    /\ Len(last.rows) = DefaultLimit
    /\ IdOf(last.rows[1]) = BulkLen
    /\ IdOf(last.rows[DefaultLimit]) = BulkLen - DefaultLimit + 1

\* C3: the result is the recent tier, newest first, followed by the important
\* tier, newest first; every Important record of the chat is in it whatever
\* the window; records 1..5 with record 2 Important read with W = 2 give
\* 5, 4 and then 2.
C3_RecentThenImportant ==
    IsRetrieval =>
        LET c == last.chat_id
            k == Len(RecentTier)
        IN  /\ \A j \in 1..Len(last.rows) :
                   IF j <= k THEN IsNormal(last.rows[j]) ELSE IsImportant(last.rows[j])
            /\ IdDescending(RecentTier)
            /\ IdDescending(ImportantTier)
            /\ \A j \in 1..Len(last.rows) :
                   IsRecordOf(last.rows[j], c, MessageImportance)
            /\ \A i \in ImportantIds(c) :
                   \E j \in (k + 1)..Len(last.rows) : IdOf(last.rows[j]) = i

C3_Witness ==
    /\ IsRetrieval
    /\ messages = ExampleStore
    /\ last.chat_id = 42
    /\ last.limit = 2
    /\ last.rows = <<Columns(messages[5]), Columns(messages[4]), Columns(messages[2])>>

\* the retrievals that do nothing but read: the call itself, !debug, !test
PureRetrievals == {"get_last_messages", "debug_command", "test_prompt_command"}

\* C4: a retrieval is a pure read, it leaves the message log and the
\* whitelist as they were, and a second retrieval of the same chat with the
\* same window, with no write in between, returns the identical result.
C4_RetrieveIsPureRead ==
    [][(last'.handler \in PureRetrievals /\ last'.chat_id \in Chats) =>
          /\ UNCHANGED <<messages, sqlite_sequence, whitelisted_chats>>
          /\ last'.rows = get_last_messages(messages', last'.chat_id, last'.limit)
          /\ (IsRetrieval /\ last.chat_id = last'.chat_id /\ last.limit = last'.limit)
                => last'.rows = last.rows]_vars

\* !debug answered for a chat that holds records of both tiers
C4_Witness ==
    /\ IsRetrieval
    /\ last.handler = "debug_command"
    /\ Len(RecentTier) > 0
    /\ Len(ImportantTier) > 0
    /\ last.rows = get_last_messages(messages, last.chat_id, DebugLimit)

\* the handlers that take the window from the message
Requesters == {"test_prompt_command", "process_gemini"}

C6_BelowOneIsEmptyWindow ==
    (IsRetrieval /\ last.limit < 1) =>
        /\ last.ret # "raised"
        /\ RecentTier = <<>>
        /\ last.rows = Select(ImportantRows(messages, last.chat_id))

\* C6 as the code has it: a window of 0 never fails and returns only the
\* Important records of the chat; a negative window does not fail either, but
\* LIMIT reads it as no limit: the result holds every Default/AIResponse
\* record of the chat, newest first, and then the Important records. The
\* handlers never pass a negative window (the token's \d+ reads no sign).
C6_ZeroEmptyNegativeUnlimited ==
    /\ (IsRetrieval /\ last.limit = 0) =>
           /\ last.ret # "raised"
           /\ RecentTier = <<>>
           /\ last.rows = Select(ImportantRows(messages, last.chat_id))
    /\ (IsRetrieval /\ last.limit < 0) =>
           /\ last.ret = "returned"
           /\ last.handler = "get_last_messages"
           /\ Len(RecentTier) = Cardinality(NormalIds(last.chat_id))
           /\ IdDescending(RecentTier)
           /\ \A j \in 1..Len(last.rows) :
                  IsRecordOf(last.rows[j], last.chat_id, MessageImportance)
           /\ Len(last.rows) = Len(RecentTier) + Cardinality(ImportantIds(last.chat_id))

\* a negative window that returned Default/AIResponse records
C6_Witness ==
    /\ IsRetrieval
    /\ last.limit < 0
    /\ Len(RecentTier) > 0
    /\ Len(ImportantTier) > 0

-----------------------------------------------------------------------------
(* The importance flag and the records' other fields                       *)

\* a record that mark_important stored and unpin_message has cleared
Unpinned(r) == r.important = DEFAULT /\ r.content[1] = "!mark"

\* C7: the importance of a record changes only from Default to Important or
\* from Important to Default; the importance of an AIResponse record never
\* changes.
C7_ImportanceTransitions ==
    [][/\ Len(messages') >= Len(messages)
       /\ \A i \in 1..Len(messages) :
              /\ messages'[i].important # messages[i].important =>
                     \/ messages[i].important = DEFAULT /\ messages'[i].important = IMPORTANT
                     \/ messages[i].important = IMPORTANT /\ messages'[i].important = DEFAULT
              /\ messages[i].important = GEMINI => messages'[i].important = GEMINI]_vars

\* an unpinned record next to a stored answer
C7_Witness ==
    \E i, j \in 1..Len(messages) :
        Unpinned(messages[i]) /\ messages[j].important = GEMINI

\* C8: unpin of a rowid returns true exactly when the record exists and is
\* Important, and then changes nothing but that record's importance, to
\* Default; otherwise it returns false and leaves the store as it was; a
\* second unpin of the same record returns false.
C8_UnpinContract ==
    [][(last'.handler = "unpin_command" /\ last'.ret \in {"unpinned", "not found"}) =>
          LET db_id == last'.arg.n
              hit == db_id \in 1..Len(messages) /\ messages[db_id].important = IMPORTANT
          IN  /\ (last'.ret = "unpinned") <=> hit
              /\ messages' = IF hit THEN [messages EXCEPT ![db_id].important = DEFAULT]
                                    ELSE messages
              /\ UNCHANGED <<sqlite_sequence, whitelisted_chats>>
              /\ (last.handler = "unpin_command" /\ last.ret = "unpinned"
                    /\ last.arg = last'.arg) => last'.ret = "not found"]_vars

\* an unpin that returned true, with another Important record left as it was
C8_Witness ==
    /\ last.handler = "unpin_command"
    /\ last.ret = "unpinned"
    /\ Unpinned(messages[last.arg.n])
    /\ \E i \in 1..Len(messages) : messages[i].important = IMPORTANT

\* C9 as stated: pin turns an existing Default record Important (and returns
\* true): when an Important record appears in a store that holds a Default
\* record, no record was added and one of the Default records has turned
\* Important.
C9_PinTurnsExistingRecord ==
    [][(/\ \E i \in 1..Len(messages) : messages[i].important = DEFAULT
        /\ \E i \in 1..Len(messages') :
               /\ messages'[i].important = IMPORTANT
               /\ i <= Len(messages) => messages[i].important # IMPORTANT) =>
          /\ Len(messages') = Len(messages)
          /\ \E i \in 1..Len(messages) :
                 messages[i].important = DEFAULT /\ messages'[i].important = IMPORTANT]_vars

\* C9 as the code has it: there is no pin of a stored record. mark_important,
\* run for the owner's own !Гемини message, appends that message as a new
\* record with importance Important and leaves every stored record as it
\* was; for a sender who is not the owner it changes nothing; and no step of
\* any handler turns a stored Default or AIResponse record Important. So an
\* Important record appears only as a new last record, of the owner, holding
\* the text of a !Гемини message (None when the command came as a caption).
C9_MarkAppendsImportantRecord ==
    [][/\ Len(messages') >= Len(messages)
       /\ \A i \in 1..Len(messages) :
              messages'[i].important = IMPORTANT => messages[i].important = IMPORTANT
       /\ \A i \in (Len(messages) + 1)..Len(messages') :
              messages'[i].important = IMPORTANT =>
                  /\ Len(messages') = Len(messages) + 1
                  /\ SubSeq(messages', 1, Len(messages)) = messages
                  /\ messages'[i].id = sqlite_sequence + 1
                  /\ messages'[i].author = "Owner"
                  /\ messages'[i].content \in {<<"!mark", messages'[i].message_id>>, None}]_vars

\* the owner marked a message while a Default record was in the store: the
\* Default record is still Default, the marked message is a new record
C9_Witness ==
    /\ Len(messages) >= 2
    /\ messages[Len(messages)].important = IMPORTANT
    /\ messages[Len(messages)].content[1] = "!mark"
    /\ messages[1].important = DEFAULT
    /\ messages[1].content[1] = "text"

\* C10: no step deletes a record or changes the chat_id, message_id, author,
\* date, content or tags (or rowid) of a stored record; unpin changes only
\* the importance flag.
C10_RecordsAreAppendOnly ==
    [][/\ Len(messages') >= Len(messages)
       /\ \A i \in 1..Len(messages) :
              [messages'[i] EXCEPT !.important = messages[i].important] = messages[i]]_vars

\* a full table whose first record has been unpinned
C10_Witness ==
    /\ Len(messages) = MaxMessages
    /\ Unpinned(messages[1])
    /\ messages[1].id = 1
    /\ messages[1].message_id = FirstMsgId

-----------------------------------------------------------------------------
(* The sequence of record ids *)

\* C11: every append creates exactly one new record, and its sequence id
\* (rowid) is strictly greater than every id handed out before in that
\* store, whatever the chat: no step adds more than one record, the counter
\* of AUTOINCREMENT never goes back, and no id is handed out twice.
C11_SequenceIdsIncrease ==
    [][/\ Len(messages') \in {Len(messages), Len(messages) + 1}
       /\ sqlite_sequence' >= sqlite_sequence
       /\ \A i \in 1..Len(messages) : messages[i].id <= sqlite_sequence
       /\ Len(messages') = Len(messages) + 1 =>
              LET new == messages'[Len(messages')]
              IN  /\ new.id > sqlite_sequence
                  /\ sqlite_sequence' = new.id
                  /\ \A i \in 1..Len(messages) : messages[i].id < new.id]_vars

\* a full table with records of both chats, numbered across the chats
C11_Witness ==
    /\ Len(messages) = MaxMessages
    /\ messages[1].chat_id # messages[MaxMessages].chat_id
    /\ messages[1].id < messages[MaxMessages].id
    /\ sqlite_sequence = messages[MaxMessages].id

-----------------------------------------------------------------------------
(* The whitelist commands, observed: !enable and !disable with what they  *)
(* answered, among the handlers that consult the whitelist                 *)

InitWhitelist == InitWatching({"enable_command", "disable_command"})

NextWhitelist ==
    \/ EnableCommand
    \/ DisableCommand
    \/ StatsCommand
    \/ StoreMessage
    \/ ProcessGemini
    \/ ProcessGeminiDone

SpecWhitelist == InitWhitelist /\ [][NextWhitelist]_vars

\* C12: !enable answers "enabled" exactly when the chat was not whitelisted
\* and then whitelists it, and answers "already enabled" with the whitelist
\* unchanged otherwise; !disable answers "disabled" exactly when the chat
\* was whitelisted and then removes it, and answers "already disabled" with
\* the whitelist unchanged otherwise; either way the membership of every
\* other chat stays as it was, and no other step changes the whitelist, so
\* a chat is whitelisted iff the last successful command on it was !enable.
C12_WhitelistContract ==
    [][LET c == last'.chat_id
           was == is_chat_whitelisted(whitelisted_chats, c)
           is == is_chat_whitelisted(whitelisted_chats', c)
           others == \A d \in Chats \ {c} :
                         is_chat_whitelisted(whitelisted_chats', d)
                             = is_chat_whitelisted(whitelisted_chats, d)
       IN  CASE last'.handler = "enable_command" ->
                    /\ last'.ret \in {"enabled", "already enabled"}
                    /\ (last'.ret = "enabled") = ~was
                    /\ is
                    /\ others
             [] last'.handler = "disable_command" ->
                    /\ last'.ret \in {"disabled", "already disabled"}
                    /\ (last'.ret = "disabled") = was
                    /\ ~is
                    /\ others
             [] OTHER -> whitelisted_chats' = whitelisted_chats]_vars

\* !enable of the one whitelisted chat, answered "already enabled", with
\* messages stored and the other chat not whitelisted
C12_Witness ==
    /\ last.handler = "enable_command"
    /\ last.ret = "already enabled"
    /\ whitelisted_chats = {last.chat_id}
    /\ Len(messages) > 0

-----------------------------------------------------------------------------
(* Retrieval and the other chats *)

\* The instance reopened on a database whose whitelist holds every chat and
\* whose message log is empty, with a Gemini client, and the handlers that
\* write to the message log (the others, unobserved, change nothing there)
InitWriters ==
    /\ messages = <<>>
    /\ sqlite_sequence = 0
    /\ whitelisted_chats = Chats
    /\ gemini_client = TRUE
    /\ next_msg_id = FirstMsgId
    /\ tasks = <<>>
    /\ last = NoObservation
    /\ watch = {}
    /\ capacity = MaxMessages
    /\ call = NoCall
    /\ update = NoUpdate
    /\ bots = NoBots
    /\ media_dir = {}
    /\ prompt = NoPrompt

NextWriters ==
    \/ UnpinCommand
    \/ MarkImportant
    \/ StoreMessage
    \/ ProcessGemini
    \/ ProcessGeminiDone
    \/ MediaCommand
    \/ MediaCommandDone

SpecWriters == InitWriters /\ [][NextWriters]_vars

\* the window sizes the separation of chats is checked with
FrameLimits == {1, 2, DefaultLimit}

\* the chats a step wrote to: those of the records it added or changed
WrittenChats ==
    {messages'[i].chat_id :
        i \in {k \in 1..Len(messages') : k > Len(messages) \/ messages'[k] # messages[k]}}

\* row is the projection of a record of chat c of the table msgs
IsRecordIn(msgs, row, c) ==
    /\ IdOf(row) \in 1..Len(msgs)
    /\ Columns(msgs[IdOf(row)]) = row
    /\ msgs[IdOf(row)].chat_id = c

\* C13: get_last_messages(C, W) returns only records whose chat_id is C, and
\* a step that appends records of another chat D (a message, a marked
\* message, an answer) or unpins a record of D leaves the result of
\* get_last_messages(C, W) as it was.
C13_RetrieveIsPerChat ==
    [][messages' # messages =>
          LET written == WrittenChats
          IN  \A c \in Chats, W \in FrameLimits :
                  LET after == get_last_messages(messages', c, W)
                  IN  /\ \A k \in 1..Len(after) : IsRecordIn(messages', after[k], c)
                      /\ c \notin written => after = get_last_messages(messages, c, W)]_vars

\* a record of chat 42, then a marked message of chat 7 that has been
\* unpinned: the retrieval of chat 42 returns its one record
C13_Witness ==
    /\ Len(messages) = MaxMessages
    /\ messages[1].chat_id = 42
    /\ messages[MaxMessages].chat_id = 7
    /\ Unpinned(messages[MaxMessages])
    /\ get_last_messages(messages, 42, DefaultLimit) = <<Columns(messages[1])>>

-----------------------------------------------------------------------------
(* Retrieval and the timestamps *)

\* every way of giving the records other timestamps
Redatings == [Dates -> Dates]
Redated(msgs, f) ==
    [i \in 1..Len(msgs) |->
        [msgs[i] EXCEPT !.date = isoformat(f[fromisoformat(msgs[i].date)])]]

\* the message ids of returned rows, in their order
MessageIds(rows) == [k \in 1..Len(rows) |-> rows[k][1]]

\* C14: retrieval orders and selects by sequence id alone: the ordinary rows
\* come newest id first and are the records with fewer than W newer ordinary
\* records of the chat, whatever their timestamps, and the same records come
\* back in the same order when the timestamps are replaced by any others.
C14_OrderIsBySequenceId ==
    \A c \in Chats, W \in FrameLimits :
        LET rows == get_last_messages(messages, c, W)
            recent == SelectSeq(rows, IsNormal)
        IN  /\ IdDescending(recent)
            /\ {IdOf(recent[k]) : k \in 1..Len(recent)}
                   = {i \in NormalIds(c) :
                         Cardinality({j \in NormalIds(c) : j > i}) < W}
            /\ \A f \in Redatings :
                   MessageIds(get_last_messages(Redated(messages, f), c, W))
                       = MessageIds(rows)

\* two ordinary records of one chat, the later one with the earlier
\* timestamp: a window of one record holds the later one
C14_Witness ==
    /\ Len(messages) = MaxMessages
    /\ messages[1].chat_id = messages[MaxMessages].chat_id
    /\ IsNormal(Columns(messages[1]))
    /\ IsNormal(Columns(messages[MaxMessages]))
    /\ fromisoformat(messages[MaxMessages].date) < fromisoformat(messages[1].date)
    /\ get_last_messages(messages, messages[1].chat_id, 1)
           = <<Columns(messages[MaxMessages])>>

-----------------------------------------------------------------------------
(* The handlers that call the AI, observed, and the owner's messages that  *)
(* arrive while they are suspended: an instance with or without a Gemini   *)
(* client, and a log with room for a trigger, a message that overtakes it  *)
(* and the answer                                                          *)

SuspendedExtra == 1

InitSuspended ==
    /\ messages = <<>>
    /\ sqlite_sequence = 0
    /\ whitelisted_chats = {}
    /\ gemini_client \in BOOLEAN
    /\ next_msg_id = FirstMsgId
    /\ tasks = <<>>
    /\ last = NoObservation
    /\ watch = {"process_gemini", "process_gemini_done", "media_command_done"}
    /\ capacity = MaxMessages + SuspendedExtra
    /\ call = NoCall
    /\ update = NoUpdate
    /\ bots = NoBots
    /\ media_dir = {}
    /\ prompt = NoPrompt

\* the owner's messages: an ordinary one, one with the trigger word, and a
\* !media in reply to a message with media
OwnerMessage == Event(TRUE, "owner", "text", "none", FALSE, NoArg, 1, FALSE)
OwnerTrigger == Event(TRUE, "owner", "text", "none", TRUE, NoArg, 1, FALSE)
OwnerMedia == Event(TRUE, "owner", "text", "media", FALSE, NoArg, 1, TRUE)

StoreMessageOwner ==
    \E chat_id \in Chats :
        /\ Dispatch(OwnerMessage) = "store_message"
        /\ store_message_handler(chat_id, OwnerMessage)
        /\ UNCHANGED <<watch, capacity, call, prompt, update, bots, media_dir>>

ProcessGeminiOwner ==
    \E chat_id \in Chats, replied \in BOOLEAN :
        /\ Dispatch(OwnerTrigger) = "process_gemini"
        /\ process_gemini(chat_id, OwnerTrigger, replied)
        /\ UNCHANGED <<watch, capacity, call, prompt, update, bots, media_dir>>

MediaCommandOwner ==
    \E chat_id \in Chats :
        /\ Dispatch(OwnerMedia) = "media_command"
        /\ media_command(chat_id, OwnerMedia)
        /\ UNCHANGED <<watch, capacity, call, prompt, update, bots, media_dir>>

NextSuspended ==
    \/ StoreMessageOwner
    \/ ProcessGeminiOwner
    \/ ProcessGeminiDone
    \/ MediaCommandOwner
    \/ MediaCommandDone

SpecSuspended == InitSuspended /\ [][NextSuspended]_vars

-----------------------------------------------------------------------------
(* Arrival order and storage order *)

\* the records of messages users sent (the others are stored answers)
IsUserRecord(r) == r.important \in {DEFAULT, IMPORTANT}

\* C15: within a chat, user messages are stored in the order they arrived:
\* the messaging service numbers the messages of a chat as they arrive, each
\* handler stores the arriving message before its first await, and so of two
\* user records of one chat the one with the smaller sequence id is the one
\* that arrived first, whatever handlers are suspended meanwhile and
\* whenever they resume.
C15_StoredInArrivalOrder ==
    \A i, j \in 1..Len(messages) :
        (/\ i < j
         /\ messages[i].chat_id = messages[j].chat_id
         /\ IsUserRecord(messages[i])
         /\ IsUserRecord(messages[j]))
            => /\ messages[i].id < messages[j].id
               /\ messages[i].message_id < messages[j].message_id

\* two user messages of one chat stored while a handler of that chat is
\* still suspended in its call of the AI: the trigger, then a later message
C15_Witness ==
    /\ Len(messages) = 2
    /\ Len(tasks) = 1
    /\ tasks[1].handler = "process_gemini"
    /\ tasks[1].trigger = messages[1].id
    /\ messages[2].chat_id = tasks[1].chat_id
    /\ IsUserRecord(messages[2])
    /\ messages[1].message_id < messages[2].message_id

-----------------------------------------------------------------------------
(* The triggering message and the outcome of the AI call *)

\* the record process_gemini stores for the message that triggered it
IsTriggerRecord(r, chat_id) ==
    /\ r.chat_id = chat_id
    /\ r.important = DEFAULT
    /\ r.content[1] = "mention"

\* A step of process_gemini that ends in one of rets has stored the
\* triggering message as the newest record; the trigger of every handler
\* suspended in the AI call is in the log; and no step removes or changes a
\* stored trigger.
TriggerStaysStored(rets) ==
    /\ (last'.handler = "process_gemini" /\ last'.ret \in rets) =>
           /\ Len(messages') = Len(messages) + 1
           /\ \E c \in Chats : IsTriggerRecord(messages'[Len(messages')], c)
    /\ \A i \in 1..Len(tasks') :
           tasks'[i].handler = "process_gemini" =>
               /\ tasks'[i].trigger \in 1..Len(messages')
               /\ IsTriggerRecord(messages'[tasks'[i].trigger], tasks'[i].chat_id)
    /\ \A i \in 1..Len(messages) :
           (\E c \in Chats : IsTriggerRecord(messages[i], c)) =>
               /\ i <= Len(messages')
               /\ messages'[i] = messages[i]

\* C16 as the specification states it: every trigger of the owner ends with
\* the triggering message stored, before the AI call and whatever its
\* outcome: an answer, an error, a failed reply, or no AI client at all.
C16_TriggerStoredWhateverOutcome ==
    [][TriggerStaysStored({"thinking", "reply failed", "no client"})]_vars

\* C16 for an instance that holds an AI client: the triggering message is
\* stored before call_gemini_api is awaited and stays stored when the call
\* returns an answer or an error text, or when the reply before it fails.
C16_TriggerStoredWithClient ==
    [][TriggerStaysStored({"thinking", "reply failed"})]_vars

\* the AI call came back with an error text after another message had been
\* stored: the trigger is still the first record
C16_Witness ==
    /\ last.handler = "process_gemini_done"
    /\ last.rows = <<(<<"Error", 0>>)>>
    /\ Len(messages) = 3
    /\ IsTriggerRecord(messages[1], last.chat_id)
    /\ messages[2].content[1] = "text"
    /\ messages[3].important = GEMINI

-----------------------------------------------------------------------------
(* A failed AI call *)

\* the step resumed one of handlers with the error text of a failed call
FailedCall(handlers) ==
    /\ last'.handler \in handlers
    /\ Len(last'.rows) = 1
    /\ startswith_error(last'.rows[1])

\* no stored answer holds an error text
NoErrorStored(msgs) ==
    \A i \in 1..Len(msgs) : msgs[i].important = GEMINI => ~startswith_error(msgs[i].content)

\* C17 as the specification states it: a failed AI call comes back as text
\* with the error marker, and neither process_gemini nor the media command
\* appends a record for it: the log is as it was, and no AIResponse record
\* holds an error text.
C17_FailedCallIsNotStored ==
    [][FailedCall({"process_gemini_done", "media_command_done"}) =>
           /\ messages' = messages
           /\ NoErrorStored(messages')]_vars

\* C17 for the media command: call_gemini_api returns the error text, the
\* command shows it and appends no record.
C17_FailedMediaCallIsNotStored ==
    [][FailedCall({"media_command_done"}) => messages' = messages]_vars

\* a media command that got an error text back, with a stored message in
\* the log and no answer stored
C17_Witness ==
    /\ last.handler = "media_command_done"
    /\ last.ret = "answered"
    /\ last.rows = <<(<<"Error", 0>>)>>
    /\ Len(messages) = 1
    /\ messages[1].important = DEFAULT

-----------------------------------------------------------------------------
(* The media command with its call of call_gemini_api followed step by     *)
(* step: one command at a time, its download done, on an instance with a   *)
(* Gemini client                                                           *)

InitUpload ==
    /\ messages = <<>>
    /\ sqlite_sequence = 0
    /\ whitelisted_chats = {}
    /\ gemini_client = TRUE
    /\ next_msg_id = FirstMsgId
    /\ tasks = <<>>
    /\ last = NoObservation
    /\ watch = {"media_command_done"}
    /\ capacity = MaxMessages
    /\ call = NoCall
    /\ update = NoUpdate
    /\ bots = NoBots
    /\ media_dir = {}
    /\ prompt = NoPrompt

\* media_command up to call_gemini_api(..., media_paths=[media_path], ...)
MediaCommandCalls ==
    \E chat_id \in Chats :
        /\ call.pc = "idle"
        /\ tasks = <<>>
        /\ media_command(chat_id, OwnerMedia)
        /\ call' = call_gemini_api(1)
        /\ UNCHANGED <<watch, capacity, prompt, update, bots, media_dir>>

FilesUpload ==
    /\ call.pc = "upload"
    /\ \E ok \in BOOLEAN : call' = files_upload(call, ok)
    /\ UNCHANGED <<messages, sqlite_sequence, whitelisted_chats, gemini_client,
                   next_msg_id, tasks, last, watch, capacity, prompt, update, bots, media_dir>>

FilesGet ==
    /\ call.pc = "check"
    /\ \E ok \in BOOLEAN, state \in FileStates : call' = files_get(call, ok, state)
    /\ UNCHANGED <<messages, sqlite_sequence, whitelisted_chats, gemini_client,
                   next_msg_id, tasks, last, watch, capacity, prompt, update, bots, media_dir>>

Sleep ==
    /\ call.pc = "sleep"
    /\ call' = sleep(call)
    /\ UNCHANGED <<messages, sqlite_sequence, whitelisted_chats, gemini_client,
                   next_msg_id, tasks, last, watch, capacity, prompt, update, bots, media_dir>>

UploadMediaFiles ==
    /\ call.pc = "uploaded"
    /\ call' = upload_media_files(call)
    /\ UNCHANGED <<messages, sqlite_sequence, whitelisted_chats, gemini_client,
                   next_msg_id, tasks, last, watch, capacity, prompt, update, bots, media_dir>>

GenerateContent ==
    /\ call.pc = "generate"
    /\ \E ok \in BOOLEAN : call' = generate_content(call, ok)
    /\ UNCHANGED <<messages, sqlite_sequence, whitelisted_chats, gemini_client,
                   next_msg_id, tasks, last, watch, capacity, prompt, update, bots, media_dir>>

CleanupUploadedFiles ==
    /\ call.pc = "cleanup"
    /\ \E ok \in BOOLEAN : call' = cleanup_uploaded_files(call, ok)
    /\ UNCHANGED <<messages, sqlite_sequence, whitelisted_chats, gemini_client,
                   next_msg_id, tasks, last, watch, capacity, prompt, update, bots, media_dir>>

\* call_gemini_api returned: the rest of media_command
MediaCommandReturns ==
    /\ call.pc = "returned"
    /\ media_command_done(1, "answered", call.response)
    /\ call' = [call EXCEPT !.pc = "idle"]
    /\ UNCHANGED <<watch, capacity, prompt, update, bots, media_dir>>

NextUpload ==
    \/ MediaCommandCalls
    \/ FilesUpload
    \/ FilesGet
    \/ Sleep
    \/ UploadMediaFiles
    \/ GenerateContent
    \/ CleanupUploadedFiles
    \/ MediaCommandReturns

SpecUpload == InitUpload /\ [][NextUpload]_vars

\* The event loop resumes a coroutine once what it awaits is done: the
\* executor's calls of files.upload and files.get return or raise, and
\* asyncio.sleep(0.5) returns.
SpecUploadFair ==
    /\ SpecUpload
    /\ WF_vars(FilesUpload)
    /\ WF_vars(FilesGet)
    /\ WF_vars(Sleep)

\* the poll is still running
Polling == call.pc \in {"check", "sleep"}

PollInv ==
    /\ call.checks <= max_attempts
    /\ call.pc = "check" => call.attempt < max_attempts /\ call.checks = call.attempt
    /\ call.pc = "sleep" => call.checks = call.attempt + 1
    /\ call.state = "ACTIVE" => ~Polling /\ call.file
    /\ call.file => call.state = "ACTIVE" /\ call.error = ""
    /\ call.error = "timeout" =>
           ~Polling /\ ~call.file /\ call.checks = max_attempts /\ call.state # "ACTIVE"
    /\ (~Polling /\ call.checks = max_attempts /\ call.error # "upload failed") =>
           call.file \/ call.error = "timeout"

\* C18: the poll of _upload_and_wait_for_file always ends: it checks the
\* state at most max_attempts = 30 times, with one sleep after each check
\* that did not report ACTIVE, returns the file at the first check that
\* reports ACTIVE, and returns the timeout error and no file when 30 checks
\* have reported other states.
C18_PollTerminates ==
    /\ []PollInv
    /\ (call.pc = "upload") ~> (call.pc = "uploaded")

\* the poll ended after 30 checks, none of them ACTIVE
C18_Witness ==
    /\ call.pc = "uploaded"
    /\ call.checks = max_attempts
    /\ call.error = "timeout"
    /\ ~call.file

-----------------------------------------------------------------------------
(* The exhausted poll *)

\* C19: when the poll is exhausted, call_gemini_api returns text with the
\* error marker and has not requested generate_content, as it does for an
\* upload that raised; the media command then shows that text and appends
\* no record.
C19_ExhaustedPollIsAnError ==
    [][/\ (call'.pc = "returned" /\ call'.error = "timeout") =>
              /\ startswith_error(call'.response)
              /\ ~call'.generated
       /\ (call.pc = "returned" /\ call'.pc = "idle" /\ call.error = "timeout") =>
              /\ messages' = messages
              /\ last'.handler = "media_command_done"
              /\ last'.ret = "answered"
              /\ last'.rows = <<call.response>>]_vars

\* a media command has ended on an exhausted poll, after an earlier one
\* whose answer is in the log
C19_Witness ==
    /\ call.pc = "idle"
    /\ call.error = "timeout"
    /\ ~call.generated
    /\ last.handler = "media_command_done"
    /\ last.rows = <<(<<"Error", 0>>)>>
    /\ Len(messages) = 1
    /\ messages[1].important = GEMINI

-----------------------------------------------------------------------------
(* The parsing of a message text by the two handlers, on every text of up  *)
(* to MaxTextLen symbols that starts with a word: the command !test, or   *)
(* the trigger word                                                        *)

MaxTextLen == 6

\* what follows the first word
Rests(n) == [1..n -> Symbols]

InitQuery ==
    /\ messages = <<>>
    /\ sqlite_sequence = 0
    /\ whitelisted_chats = {}
    /\ gemini_client = TRUE
    /\ next_msg_id = FirstMsgId
    /\ tasks = <<>>
    /\ last = NoObservation
    /\ watch = {}
    /\ capacity = MaxMessages
    /\ call = NoCall
    /\ update = NoUpdate
    /\ bots = NoBots
    /\ media_dir = {}
    /\ \E n \in 0..(MaxTextLen - 1) :
           \E rest \in Rests(n) :
               prompt = [NoPrompt EXCEPT !.pc = "received", !.text = <<"w">> \o rest]

\* process_gemini gets the texts that hold the trigger word (a word)
ProcessGeminiParses ==
    /\ prompt.pc = "received"
    /\ In("w", prompt.text)
    /\ prompt' = [prompt EXCEPT !.pc = "process_gemini", !.parsed = Parse(prompt.text)]
    /\ UNCHANGED <<messages, sqlite_sequence, whitelisted_chats, gemini_client,
                   next_msg_id, tasks, last, watch, capacity, call, update, bots, media_dir>>

\* test_prompt_command gets the texts that start with the command (a word)
TestPromptParses ==
    /\ prompt.pc = "received"
    /\ prompt.text # <<>>
    /\ prompt.text[1] = "w"
    /\ prompt' = [prompt EXCEPT !.pc = "test_prompt_command", !.parsed = Parse(prompt.text)]
    /\ UNCHANGED <<messages, sqlite_sequence, whitelisted_chats, gemini_client,
                   next_msg_id, tasks, last, watch, capacity, call, update, bots, media_dir>>

NextQuery ==
    \/ ProcessGeminiParses
    \/ TestPromptParses

SpecQuery == InitQuery /\ [][NextQuery]_vars

\* a handler has parsed the text
Parsed == prompt.pc \in {"process_gemini", "test_prompt_command"}

\* C20 as the specification states it: the query that goes into the prompt
\* holds neither a window-size token nor the deep-think flag.
C20_QueryHasNoTokens ==
    Parsed => /\ ~In("T", prompt.parsed.query)
              /\ re_search(prompt.parsed.query) = 0

\* C20, what the handlers do with the flag: "!думай" is only looked for,
\* never removed: the query that goes into the prompt holds the flag
\* whenever the free text does, and that is when the deep-think model is
\* chosen.
C20_FlagStaysInQuery ==
    Parsed => /\ In("T", prompt.parsed.query) = In("T", Query(prompt.text))
              /\ (prompt.parsed.model = FLASH_THINKING) = In("T", Query(prompt.text))

\* a text with a window-size token and the flag: the token is gone from the
\* query, the flag is not
C20_Witness ==
    /\ prompt.pc = "process_gemini"
    /\ prompt.text = <<"w", ",", "A", "B", "1", "T">>
    /\ prompt.parsed.query = <<"T">>
    /\ prompt.parsed.model = FLASH_THINKING
    /\ prompt.parsed.context_limit = 1

-----------------------------------------------------------------------------
(* The window size of a text without a well-formed token *)

\* the prefix of the token with a number behind it, somewhere in q
HasToken(q) ==
    \E i \in 1..Len(q) :
        /\ i + 2 <= Len(q)
        /\ SubSeq(q, i, i + 1) = <<"A", "B">>
        /\ q[i + 2] \in Digits

\* the prefix of the token with no number behind it, and no well-formed
\* token elsewhere
HasMalformedTokenOnly(q) ==
    /\ \E i \in 1..Len(q) : i + 1 <= Len(q) /\ SubSeq(q, i, i + 1) = <<"A", "B">>
    /\ ~HasToken(q)

\* C21: a malformed window-size token is not an error: the handler goes on
\* with the default window size 120, and a text without a token gives the
\* window size 120 as well; in both cases the query is the free text as it
\* was typed.
C21_MalformedTokenIsDefault ==
    (Parsed /\ ~HasToken(Query(prompt.text))) =>
        /\ prompt.parsed.context_limit = DefaultLimit
        /\ prompt.parsed.query = Query(prompt.text)

\* process_gemini parsed a text whose token has a word where its number
\* should be: window size 120, the malformed token still in the query
C21_Witness ==
    /\ prompt.pc = "process_gemini"
    /\ prompt.text = <<"w", ",", "A", "B", "w">>
    /\ HasMalformedTokenOnly(Query(prompt.text))
    /\ prompt.parsed.context_limit = DefaultLimit
    /\ prompt.parsed.query = <<"A", "B", "w">>

-----------------------------------------------------------------------------
(* The handlers that format the history, on a database that earlier runs   *)
(* have filled: !debug, !test and the trigger, each given a text, with the *)
(* history it formats and the prompt it builds followed in prompt          *)

\* six records of chat 42 as the handlers store them: a message of another
\* user, a captioned photo marked important, an answer, a media analysis, a
\* captioned photo, a marked text
VariedStore ==
    <<Row(1, 42, FirstMsgId, "Other", isoformat(1), <<"text", FirstMsgId>>, "", DEFAULT),
      Row(2, 42, FirstMsgId + 1, "Owner", isoformat(2), None, "contains photo", IMPORTANT),
      Row(3, 42, FirstMsgId + 2, "Gemini", isoformat(1), <<"response", 0>>, "", GEMINI),
      Row(4, 42, FirstMsgId + 3, "Gemini Media Analysis", isoformat(1), <<"response", 0>>,
          "media_analysis", GEMINI),
      Row(5, 42, FirstMsgId + 4, "Owner", isoformat(1), <<"caption", FirstMsgId + 4>>,
          "contains photo", DEFAULT),
      Row(6, 42, FirstMsgId + 5, "Owner", isoformat(1), <<"!mark", FirstMsgId + 5>>, "",
          IMPORTANT)>>

\* the texts: the first word alone, a query after a comma, a query with the
\* flag after a space, a token alone, a token and a query, a malformed token
PromptTexts ==
    {<<"w">>,
     <<"w", ",", "w">>,
     <<"w", " ", "w", "T">>,
     <<"w", ",", "A", "B", "1">>,
     <<"w", ",", "A", "B", "1", " ", "w">>,
     <<"w", ",", "A", "B", "w">>}

InitPrompt ==
    /\ messages \in SmallStores \cup {ExampleStore, MixedStore, VariedStore}
    /\ sqlite_sequence = Len(messages)
    /\ whitelisted_chats = {}
    /\ gemini_client = TRUE
    /\ next_msg_id = FirstMsgId + Len(messages)
    /\ tasks = <<>>
    /\ last = NoObservation
    /\ watch = {"debug_command", "test_prompt_command", "process_gemini"}
    /\ capacity = Len(messages) + 2
    /\ call = NoCall
    /\ update = NoUpdate
    /\ bots = NoBots
    /\ media_dir = {}
    /\ \E t \in PromptTexts : prompt = [NoPrompt EXCEPT !.pc = "received", !.text = t]

\* the owner's message with the text t: a command, or the trigger word
TextEvent(cmd, t) == Event(TRUE, "owner", "text", cmd, cmd = "none", ArgOf(t), 1, FALSE)

\* what a handler built from the rows it retrieved
Built(handler, rows) ==
    LET parsed == Parse(prompt.text)
        history == format_chat_history(rows)
    IN  [prompt EXCEPT !.pc = handler, !.parsed = parsed, !.history = history,
                       !.combined_query = combined_query(history, parsed.query)]

\* debug_command: the history of the last 10 messages
DebugCommandFormats ==
    \E chat_id \in Chats :
        /\ prompt.pc = "received"
        /\ Dispatch(TextEvent("debug", prompt.text)) = "debug_command"
        /\ debug_command(chat_id, TextEvent("debug", prompt.text))
        /\ prompt' = [prompt EXCEPT !.pc = "debug_command",
                                    !.history = format_chat_history(last'.rows)]
        /\ UNCHANGED <<watch, capacity, call, update, bots, media_dir>>

\* test_prompt_command: the prompt it shows
TestPromptBuilds ==
    \E chat_id \in Chats :
        /\ prompt.pc = "received"
        /\ Dispatch(TextEvent("test", prompt.text)) = "test_prompt_command"
        /\ test_prompt_command(chat_id, TextEvent("test", prompt.text))
        /\ prompt' = Built("test_prompt_command", last'.rows)
        /\ UNCHANGED <<watch, capacity, call, update, bots, media_dir>>

\* process_gemini: the prompt it passes to call_gemini_api
ProcessGeminiBuilds ==
    \E chat_id \in Chats, replied \in BOOLEAN :
        /\ prompt.pc = "received"
        /\ Dispatch(TextEvent("none", prompt.text)) = "process_gemini"
        /\ process_gemini(chat_id, TextEvent("none", prompt.text), replied)
        /\ prompt' = Built("process_gemini", last'.rows)
        /\ UNCHANGED <<watch, capacity, call, update, bots, media_dir>>

NextPrompt ==
    \/ DebugCommandFormats
    \/ TestPromptBuilds
    \/ ProcessGeminiBuilds
    \/ ProcessGeminiDone

SpecPrompt == InitPrompt /\ [][NextPrompt]_vars

\* a handler has formatted the rows in last.rows, retrieved from messages
Formatted ==
    /\ IsRetrieval
    /\ prompt.pc \in {"debug_command", "test_prompt_command", "process_gemini"}

\* the rowids of a tier of the last retrieval, oldest first
RecentAscending == Reverse([k \in 1..Len(RecentTier) |-> IdOf(RecentTier[k])])
ImportantAscending == Reverse([k \in 1..Len(ImportantTier) |-> IdOf(ImportantTier[k])])

\* the lines of the records ids of the table, in that order
LinesOf(ids) == [k \in 1..Len(ids) |-> Line(Columns(messages[ids[k]]))]

\* rowids strictly rising along ids
Ascending(ids) == \A k \in 1..(Len(ids) - 1) : ids[k] < ids[k + 1]

-----------------------------------------------------------------------------
(* The prompt of an empty history *)

\* a handler has built a prompt from the rows in last.rows
BuiltPrompt ==
    /\ IsRetrieval
    /\ prompt.pc \in {"test_prompt_command", "process_gemini"}

\* C23: formatting an empty retrieval result with the query "hello" gives
\* exactly the fixed trailing separator followed by "hello": the history is
\* the empty string, no line and no newline comes before the separator, and
\* nothing follows the query.
C23_EmptyHistoryIsSeparatorAndQuery ==
    (BuiltPrompt /\ last.rows = <<>>) =>
        /\ prompt.history = <<>>
        /\ prompt.combined_query = <<Separator>> \o prompt.parsed.query
        /\ prompt.parsed.query = <<"w">> => prompt.combined_query = <<Separator, "w">>

\* !test with a one-word query in a chat that has no record, while the
\* other chat has some
C23_Witness ==
    /\ BuiltPrompt
    /\ prompt.pc = "test_prompt_command"
    /\ prompt.text = <<"w", ",", "w">>
    /\ last.rows = <<>>
    /\ last.chat_id = 7
    /\ messages = ExampleStore
    /\ prompt.combined_query = <<Separator, "w">>

-----------------------------------------------------------------------------
(* The preview and the prompt of the AI call *)

\* what !test with the text t shows in chat c when the table is msgs
PreviewOf(msgs, c, t) ==
    LET parsed == Parse(t)
    IN  combined_query(format_chat_history(get_last_messages(msgs, c, parsed.context_limit)),
                       parsed.query)

\* the step is handler's, building a prompt from the text it was given
Builds(handler) == prompt.pc = "received" /\ prompt'.pc = handler

\* C24 as the specification states it: for the same chat, the same store
\* before the event and the same query text, the prompt and the window size
\* of the preview are those process_gemini passes to the AI.
C24_PreviewIsThePrompt ==
    [][Builds("process_gemini") =>
           /\ last'.limit = Parse(prompt.text).context_limit
           /\ prompt'.combined_query = PreviewOf(messages, last'.chat_id, prompt.text)]_vars

\* C24, what the two handlers agree on: the window size and the query are
\* the same, the preview changes nothing and is the prompt of the table as
\* it stands, and the prompt process_gemini passes to the AI is the preview
\* of the table after the triggering message has been stored: its history
\* ends with the line of the triggering message itself.
C24_PreviewOfStoredRows ==
    [][/\ Builds("test_prompt_command") =>
              /\ messages' = messages
              /\ last'.limit = Parse(prompt.text).context_limit
              /\ prompt'.combined_query = PreviewOf(messages, last'.chat_id, prompt.text)
       /\ Builds("process_gemini") =>
              /\ Len(messages') = Len(messages) + 1
              /\ last'.limit = Parse(prompt.text).context_limit
              /\ prompt'.parsed = Parse(prompt.text)
              /\ prompt'.combined_query = PreviewOf(messages', last'.chat_id, prompt.text)
              /\ prompt'.history
                     = join(IF Len(last'.rows) = 1 THEN <<>>
                            ELSE <<format_chat_history(Tail(last'.rows))>>)
                           \o (IF Len(last'.rows) = 1 THEN <<>> ELSE <<"\n">>)
                           \o Line(Columns(messages'[Len(messages')]))]_vars

\* the trigger with a one-word query in the chat of the five records: the
\* prompt holds six lines, the preview of the five records before it five
C24_Witness ==
    /\ prompt.pc = "process_gemini"
    /\ prompt.text = <<"w", ",", "w">>
    /\ last.chat_id = 42
    /\ Len(messages) = 6
    /\ SubSeq(messages, 1, 5) = ExampleStore
    /\ Len(last.rows) = 6
    /\ prompt.combined_query # PreviewOf(ExampleStore, 42, prompt.text)
    /\ prompt.combined_query = PreviewOf(messages, 42, prompt.text)

-----------------------------------------------------------------------------
(* The content of the records: the handlers that write to the log,        *)
(* observed, on an instance with or without a Gemini client               *)

InitContent ==
    InitWatching({"store_message", "mark_important", "process_gemini",
                  "process_gemini_done", "media_command_done"})

SpecContent == InitContent /\ [][NextWriters]_vars

\* the records a step appended
Appended == {i \in 1..Len(messages') : i > Len(messages)}

\* C25 as the specification states it: no stored record has null content.
C25_NoNullContent ==
    \A i \in 1..Len(messages) : messages[i].content # None

\* C25, what the handlers keep: a message with neither text nor caption
\* creates no record; the content of a stored record never changes; and the
\* records appended by Bot.store_message, by process_gemini (trigger and
\* answer) and by the media command have non-null content. The one record
\* with null content is the one mark_important appends for a command that
\* came as a caption.
C25_NullContentOnlyFromCaptionMark ==
    [][/\ (last'.handler = "store_message" /\ last'.ret = "skipped") => messages' = messages
       /\ \A i \in 1..Len(messages) :
              i <= Len(messages') /\ messages'[i].content = messages[i].content
       /\ \A i \in Appended :
              messages'[i].content = None =>
                  /\ last'.handler = "mark_important"
                  /\ messages'[i].important = IMPORTANT
                  /\ messages'[i].tags # ""]_vars

\* the owner's photo with the caption "!Гемини" has been marked: the record
\* is Important and its content is null
C25_Witness ==
    /\ last.handler = "mark_important"
    /\ last.ret = "marked"
    /\ Len(messages) = MaxMessages
    /\ messages[MaxMessages].important = IMPORTANT
    /\ messages[MaxMessages].content = None
    /\ messages[1].content # None

-----------------------------------------------------------------------------
(* The dispatch of an incoming event, followed in update: the event        *)
(* arrives, the dispatcher picks the handler, the handler runs. Every      *)
(* handler is observed.                                                    *)

MaxUpdates == 2

InitDispatch == InitWatching(Handlers)

\* an event arrives in a chat
Receive ==
    \E chat_id \in Chats, m \in Events :
        /\ update.pc # "arrived"
        /\ update.n < MaxUpdates
        /\ update' = [pc |-> "arrived", chat_id |-> chat_id, n |-> update.n + 1, m |-> m]
        /\ UNCHANGED <<messages, sqlite_sequence, whitelisted_chats, gemini_client,
                       next_msg_id, tasks, last, watch, capacity, call, prompt, bots, media_dir>>

\* the callback of handler, called with the event
Callback(handler, chat_id, m) ==
    \/ handler = "enable_command" /\ enable_command(chat_id, m)
    \/ handler = "disable_command" /\ disable_command(chat_id, m)
    \/ handler = "stats_command" /\ stats_command(chat_id, m)
    \/ handler = "pins_command" /\ pins_command(chat_id, m)
    \/ handler = "unpin_command" /\ unpin_command(chat_id, m)
    \/ handler = "debug_command" /\ debug_command(chat_id, m)
    \/ handler = "test_prompt_command" /\ test_prompt_command(chat_id, m)
    \/ handler = "media_command" /\ media_command(chat_id, m)
    \/ handler = "mark_important" /\ mark_important(chat_id, m)
    \/ handler = "process_gemini" /\ \E replied \in BOOLEAN : process_gemini(chat_id, m, replied)
    \/ handler = "store_message" /\ store_message_handler(chat_id, m)

\* the dispatcher calls the handler it picked for the event that arrived
Handle ==
    /\ update.pc = "arrived"
    /\ Callback(Dispatch(update.m), update.chat_id, update.m)
    /\ update' = [update EXCEPT !.pc = "handled"]
    /\ UNCHANGED <<watch, capacity, call, prompt, bots, media_dir>>

NextDispatch ==
    \/ Receive
    \/ Handle
    \/ ProcessGeminiDone
    \/ MediaCommandDone

SpecDispatch == InitDispatch /\ [][NextDispatch]_vars

\* the step runs a handler on the event that had arrived
Handled == update.pc = "arrived" /\ update'.pc = "handled"

\* C26: an event runs exactly the first handler, in registration order,
\* whose filter matches, and no later one: the step is that handler's and
\* appends at most one record; the owner's !enable and !disable are not
\* stored by the catch-all handler and start no AI call; the owner's
\* !Гемини command, which also holds the trigger word, is handled by
\* mark_important alone: one Important record by the owner, no AI call, no
\* Default record.
C26_FirstMatchWins ==
    [][Handled =>
           LET m == update.m
               new == Appended
           IN  /\ \E i \in 1..Len(Registration) :
                      /\ last'.handler = Registration[i]
                      /\ Matches(Registration[i], m)
                      /\ \A j \in 1..(i - 1) : ~Matches(Registration[j], m)
               /\ Cardinality(new) <= 1
               /\ (m.me /\ m.cmd \in {"enable", "disable"}) =>
                      /\ messages' = messages
                      /\ tasks' = tasks
               /\ (m.me /\ m.cmd = "mark") =>
                      /\ m.mentions
                      /\ last'.handler = "mark_important"
                      /\ tasks' = tasks
                      /\ \A i \in new : messages'[i].important = IMPORTANT]_vars

\* the owner's !Гемини has been handled on an instance with a Gemini
\* client: one Important record, no handler suspended in the AI call
C26_Witness ==
    /\ update.pc = "handled"
    /\ update.m.me
    /\ update.m.cmd = "mark"
    /\ update.m.mentions
    /\ gemini_client
    /\ last.handler = "mark_important"
    /\ last.ret = "marked"
    /\ tasks = <<>>
    /\ Len(messages) = 1
    /\ messages[1].important = IMPORTANT

-----------------------------------------------------------------------------
(* Two instances of one process: main() starts run_bot for every entry of  *)
(* config.json; the event loop runs the handlers of one instance, then     *)
(* those of the other. The first entry has a key and the path "a.db", the  *)
(* second any path and no key. The owner's events arrive in one chat. The  *)
(* process as a whole stores at most InstanceRoom records.                 *)

InstanceRoom == 3

Instances == {1, 2}
InstanceChat == 42

InitInstances ==
    /\ \E path \in Paths :
           LET configs == <<Config("a.db", "key"), Config(path, "")>>
           IN  bots = [self |-> 1,
                       configs |-> configs,
                       db |-> [p \in Paths |-> EmptyFile],
                       client |-> [j \in Instances |-> GeminiClient(configs[j])],
                       tasks |-> [j \in Instances |-> <<>>],
                       next_msg_id |-> [j \in Instances |-> FirstMsgId]]
    /\ media_dir = {}
    /\ messages = <<>>
    /\ sqlite_sequence = 0
    /\ whitelisted_chats = {}
    /\ gemini_client = TRUE
    /\ next_msg_id = FirstMsgId
    /\ tasks = <<>>
    /\ last = NoObservation
    /\ watch = {}
    /\ capacity = InstanceRoom
    /\ call = NoCall
    /\ prompt = NoPrompt
    /\ update = NoUpdate

\* the records of the files other than the one at path
RECURSIVE RecordsElsewhere(_, _, _)
RecordsElsewhere(db, path, paths) ==
    IF paths = {} THEN 0
    ELSE LET p == CHOOSE q \in paths : TRUE
         IN  (IF p = path THEN 0 ELSE Len(db[p].messages))
                 + RecordsElsewhere(db, path, paths \ {p})

\* the event loop goes on with a handler of another instance: that
\* instance's file, client, suspended handlers and message ids become the
\* current ones, and its log may grow by what the others leave of
\* InstanceRoom
EventLoopSwitches ==
    \E j \in Instances \ {bots.self} :
        LET saved == [bots.db EXCEPT ![db_path(bots.configs[bots.self])] =
                          [messages |-> messages, sqlite_sequence |-> sqlite_sequence,
                           whitelisted_chats |-> whitelisted_chats]]
            path == db_path(bots.configs[j])
            file == saved[path]
        IN  /\ bots' = [bots EXCEPT !.self = j, !.db = saved,
                                    !.client[bots.self] = gemini_client,
                                    !.tasks[bots.self] = tasks,
                                    !.next_msg_id[bots.self] = next_msg_id]
            /\ messages' = file.messages
            /\ sqlite_sequence' = file.sqlite_sequence
            /\ whitelisted_chats' = file.whitelisted_chats
            /\ gemini_client' = bots.client[j]
            /\ tasks' = bots.tasks[j]
            /\ next_msg_id' = bots.next_msg_id[j]
            /\ capacity' = InstanceRoom - RecordsElsewhere(saved, path, Paths) - Len(tasks)
            /\ UNCHANGED <<last, watch, call, prompt, update, media_dir>>

\* the owner's events: a message, the trigger, a marked message, !enable,
\* !disable and !unpin 1
InstanceEvents ==
    {OwnerMessage, OwnerTrigger,
     Event(TRUE, "owner", "text", "mark", TRUE, NoArg, 1, FALSE),
     Event(TRUE, "owner", "text", "enable", FALSE, NoArg, 1, FALSE),
     Event(TRUE, "owner", "text", "disable", FALSE, NoArg, 1, FALSE),
     Event(TRUE, "owner", "text", "unpin", FALSE, IntArg(1), 1, FALSE)}

\* the running instance handles an event
InstanceHandles ==
    \E m \in InstanceEvents :
        /\ Callback(Dispatch(m), InstanceChat, m)
        /\ UNCHANGED <<watch, capacity, call, prompt, update, bots, media_dir>>

\* a handler of the running instance resumes with the answer of the AI
InstanceResumes ==
    \E i \in 1..Len(tasks) :
        /\ process_gemini_done(i, <<"response", 0>>, TRUE)
        /\ UNCHANGED <<watch, capacity, call, prompt, update, bots, media_dir>>

NextInstances ==
    \/ EventLoopSwitches
    \/ InstanceHandles
    \/ InstanceResumes

SpecInstances == InitInstances /\ [][NextInstances]_vars

\* the step is an operation of the running instance
Operates == bots'.self = bots.self

\* the database_path of instance j in config.json
ConfiguredPath(j) == bots.configs[j].database_path

\* C27 as the specification states it: an operation of one instance leaves
\* the message log, the whitelist and the AI client of every other instance
\* unchanged.
C27_InstancesShareNothing ==
    [][Operates =>
           \A j \in Instances \ {bots.self} :
               /\ FileOf(j)' = FileOf(j)
               /\ ClientOf(j)' = ClientOf(j)]_vars

\* C27 for what the instances own: every instance has its own AI client and
\* its own suspended handlers, which no operation of another instance
\* changes; the message log and the whitelist of another instance are left
\* unchanged when the two are configured with different database paths; and
\* the event loop's going from one instance to another changes nothing of
\* any instance.
C27_OwnClientAndOwnFile ==
    [][/\ Operates =>
              \A j \in Instances \ {bots.self} :
                  /\ ClientOf(j)' = ClientOf(j)
                  /\ TasksOf(j)' = TasksOf(j)
                  /\ ConfiguredPath(j) # ConfiguredPath(bots.self) =>
                         FileOf(j)' = FileOf(j)
       /\ ~Operates =>
              \A j \in Instances :
                  /\ FileOf(j)' = FileOf(j)
                  /\ ClientOf(j)' = ClientOf(j)
                  /\ TasksOf(j)' = TasksOf(j)]_vars

\* two instances with different paths, the second without a key: the first
\* has enabled the chat and is suspended in an AI call, the second has
\* stored a marked message
C27_Witness ==
    /\ ConfiguredPath(1) # ConfiguredPath(2)
    /\ ~ClientOf(2)
    /\ FileOf(1).whitelisted_chats = {InstanceChat}
    /\ Len(TasksOf(1)) = 1
    /\ Len(FileOf(1).messages) = 1
    /\ FileOf(2).whitelisted_chats = {}
    /\ Len(FileOf(2).messages) = 1
    /\ FileOf(2).messages[1].important = IMPORTANT

-----------------------------------------------------------------------------
(* Simultaneous triggers: the owner's triggers in an instance with a       *)
(* Gemini client and a log with room for two queries and their two         *)
(* replies. The AI's answer names the query it answers (the rowid of the   *)
(* trigger), so that a stored reply tells whose it is.                     *)

TriggerRoom == 4

InitTriggers ==
    /\ messages = <<>>
    /\ sqlite_sequence = 0
    /\ whitelisted_chats = {}
    /\ gemini_client = TRUE
    /\ next_msg_id = FirstMsgId
    /\ tasks = <<>>
    /\ last = NoObservation
    /\ watch = {"process_gemini"}
    /\ capacity = TriggerRoom
    /\ call = NoCall
    /\ update = NoUpdate
    /\ bots = NoBots
    /\ media_dir = {}
    /\ prompt = NoPrompt

\* call_gemini_api returns to one of the suspended handlers, in any order
TriggerResumes ==
    \E i \in 1..Len(tasks), edited \in BOOLEAN :
        /\ process_gemini_done(i, <<"response", tasks[i].trigger>>, edited)
        /\ UNCHANGED <<watch, capacity, call, prompt, update, bots, media_dir>>

NextTriggers ==
    \/ ProcessGeminiOwner
    \/ TriggerResumes

SpecTriggers == InitTriggers /\ [][NextTriggers]_vars

\* the stored replies, and the trigger a reply answers
IsReply(r) == r.important = GEMINI
QueryOf(r) == r.content[2]

\* C28: the reply record of a trigger is appended after the trigger's query
\* record: the query it answers is an earlier record of the same chat with a
\* smaller sequence id. Between the two, other triggers of the chat store
\* their queries and their replies in any order: when process_gemini has
\* retrieved its context, that context holds the query of every trigger of
\* the chat that is still suspended in its AI call, and no reply to it.
C28_ReplyAfterQuery ==
    /\ \A i \in 1..Len(messages) :
           IsReply(messages[i]) =>
               /\ QueryOf(messages[i]) \in 1..(i - 1)
               /\ messages[QueryOf(messages[i])].id < messages[i].id
               /\ IsTriggerRecord(messages[QueryOf(messages[i])], messages[i].chat_id)
    /\ (last.handler = "process_gemini" /\ last.ret = "thinking") =>
           \A i \in 1..Len(tasks) :
               tasks[i].chat_id = last.chat_id =>
                   /\ \E k \in 1..Len(last.rows) :
                          last.rows[k] = Columns(messages[tasks[i].trigger])
                   /\ \A k \in 1..Len(last.rows) :
                          last.rows[k][6] = GEMINI => last.rows[k][4][2] # tasks[i].trigger

\* two triggers of one chat, both suspended at once, the second answered
\* first: query1, query2, reply2, reply1
C28_Witness ==
    /\ Len(messages) = 4
    /\ \A i \in 1..4 : messages[i].chat_id = 42 /\ messages[i].id = i
    /\ IsTriggerRecord(messages[1], 42)
    /\ IsTriggerRecord(messages[2], 42)
    /\ IsReply(messages[3]) /\ QueryOf(messages[3]) = 2
    /\ IsReply(messages[4]) /\ QueryOf(messages[4]) = 1

-----------------------------------------------------------------------------
(* The parts of a formatted line *)

\* the lines of a formatted history: its pieces between the newlines
RECURSIVE LinesIn(_)
LinesIn(history) ==
    IF history = <<>> THEN <<>>
    ELSE IF \A k \in 1..Len(history) : history[k] # "\n" THEN <<history>>
    ELSE LET n == CHOOSE k \in 1..Len(history) :
                      /\ history[k] = "\n"
                      /\ \A j \in 1..(k - 1) : history[j] # "\n"
         IN  <<SubSeq(history, 1, n - 1)>> \o LinesIn(SubSeq(history, n + 1, Len(history)))

\* a line without its marker
Unmarked(line) == IF line[1] = ImportantMarker THEN Tail(line) ELSE line

\* the row the k-th line of the last formatted history was made from
RowOfLine(k) == last.rows[Len(last.rows) + 1 - k]

\* C29: every line of a formatted history begins with the marker exactly
\* when its record's importance is Important; after the message id and the
\* time it shows "Gemini" when the importance is Gemini, whatever author is
\* stored, and the stored author otherwise; then " (tags)" exactly when the
\* record's tags are not empty; then ": " and the content.
C29_MarkerAuthorAndTags ==
    Formatted =>
        /\ Len(LinesIn(prompt.history)) = Len(last.rows)
        /\ \A k \in 1..Len(last.rows) :
               LET line == LinesIn(prompt.history)[k]
                   body == Unmarked(line)
                   m == RowOfLine(k)
               IN  /\ line[1] = ImportantMarker <=> m[6] = IMPORTANT
                   /\ body[1] = ToString(m[1])
                   /\ body[3] = strftime(fromisoformat(m[3]))
                   /\ body[5] = "Gemini" <=> (m[6] = GEMINI \/ m[2] = "Gemini")
                   /\ m[6] # GEMINI => body[5] = m[2]
                   /\ (body[6] = " (" /\ body[7] = m[5] /\ body[8] = ")") <=> m[5] # ""
                   /\ body[IF m[5] # "" THEN 9 ELSE 6] = ": "

\* !debug in the chat of the six varied records: the marked captioned photo
\* comes first, with marker and tags and the content None; the fifth line is
\* the media analysis, shown as Gemini with its tags
C29_Witness ==
    /\ Formatted
    /\ prompt.pc = "debug_command"
    /\ messages = VariedStore
    /\ Len(LinesIn(prompt.history)) = 6
    /\ LinesIn(prompt.history)[1]
           = <<ImportantMarker, ToString(FirstMsgId + 1), " ", strftime(2), " ", "Owner",
               " (", "contains photo", ")", ": ", "None">>
    /\ LinesIn(prompt.history)[5]
           = <<ToString(FirstMsgId + 3), " ", strftime(1), " ", "Gemini",
               " (", "media_analysis", ")", ": ", ToString(<<"response", 0>>)>>
    /\ LinesIn(prompt.history)[3]
           = <<ToString(FirstMsgId), " ", strftime(1), " ", "Other", ": ",
               ToString(<<"text", FirstMsgId>>)>>

-----------------------------------------------------------------------------
(* call_gemini_api on its own, with one media file or several: what is on  *)
(* the backend when it returns                                             *)

MaxPaths == 2

InitCleanup ==
    /\ messages = <<>>
    /\ sqlite_sequence = 0
    /\ whitelisted_chats = {}
    /\ gemini_client = TRUE
    /\ next_msg_id = FirstMsgId
    /\ tasks = <<>>
    /\ last = NoObservation
    /\ watch = {}
    /\ capacity = 0
    /\ \E media_paths \in 1..MaxPaths : call = call_gemini_api(media_paths)
    /\ update = NoUpdate
    /\ bots = NoBots
    /\ media_dir = {}
    /\ prompt = NoPrompt

NextCleanup ==
    \/ FilesUpload
    \/ FilesGet
    \/ Sleep
    \/ UploadMediaFiles
    \/ GenerateContent
    \/ CleanupUploadedFiles

SpecCleanup == InitCleanup /\ [][NextCleanup]_vars

\* the calls of files.delete for the file f
Deletes(f) == Cardinality({k \in 1..Len(call.deletes) : call.deletes[k] = f})

\* the files put on the backend for which files.delete was never called
Leaked == {f \in call.uploads : Deletes(f) = 0}

\* C30 as stated: when call_gemini_api returns, files.delete has been called
\* exactly once for every file that files.upload put on the backend, on
\* every path.
C30_EveryUploadDeletedOnce ==
    call.pc = "returned" => \A f \in call.uploads : Deletes(f) = 1

\* C30 for the files that became ACTIVE: when call_gemini_api returns,
\* files.delete has been called exactly once for every file that
\* _upload_and_wait_for_file returned, whether generate_content answered or
\* raised or a later file failed, and for no other file; a delete that did
\* not raise has removed the file from the backend. At most one uploaded
\* file is left without a delete: the one whose poll ended in the timeout
\* or in an exception.
C30_ActiveFilesDeletedOnce ==
    call.pc = "returned" =>
        /\ \A k \in 1..Len(call.uploaded_files) : Deletes(call.uploaded_files[k]) = 1
        /\ \A f \in 1..call.paths : Deletes(f) <= 1
        /\ \A k \in 1..Len(call.deletes) :
               \E j \in 1..Len(call.uploaded_files) : call.uploaded_files[j] = call.deletes[k]
        /\ call.remote \subseteq call.uploads
        /\ Leaked \subseteq call.remote
        /\ Leaked \subseteq {call.idx}
        /\ Leaked # {} => ~call.file /\ call.error \in {"timeout", "upload failed"}
        /\ call.error = "timeout" => Leaked = {call.idx}

\* two files: the first became ACTIVE, the poll of the second was exhausted;
\* the first is deleted, the second stays on the backend
C30_Witness ==
    /\ call.pc = "returned"
    /\ call.paths = 2
    /\ call.uploaded_files = <<1>>
    /\ call.error = "timeout"
    /\ call.deletes = <<1>>
    /\ call.remote = {2}
    /\ startswith_error(call.response)
    /\ ~call.generated

-----------------------------------------------------------------------------
(* Events of other users in a chat that is not whitelisted *)

\* the step runs a handler on an event that did not come from the owner, in
\* a chat that is not whitelisted
HandledForStranger ==
    /\ Handled
    /\ update.m.user # "owner"
    /\ ~is_chat_whitelisted(whitelisted_chats, update.chat_id)

\* C31 as stated: an event of a non-owner in a chat that is not whitelisted
\* starts no AI call and appends no record, whichever handler it matches.
C31_StrangerCausesNothing ==
    [][HandledForStranger => (messages' = messages /\ tasks' = tasks)]_vars

\* C31 for the handlers that test the sender: an event of a non-owner in a
\* chat that is not whitelisted changes neither the log nor the whitelist,
\* and starts no AI call unless it is the media command; the media command
\* of a non-owner appends nothing itself and starts its AI call exactly
\* when the instance has a client and the message replied to has media.
C31_TriggerAndStoreAreGated ==
    [][HandledForStranger =>
           /\ messages' = messages
           /\ whitelisted_chats' = whitelisted_chats
           /\ last'.handler # "media_command" => tasks' = tasks
           /\ last'.handler = "media_command" =>
                  (tasks' # tasks <=> (gemini_client /\ update.m.has_media))]_vars

\* the trigger word from another user in a chat that is not whitelisted, on
\* an instance with a client: process_gemini ignored it
C31_Witness ==
    /\ update.pc = "handled"
    /\ update.m.user = "other"
    /\ update.m.mentions
    /\ gemini_client
    /\ ~is_chat_whitelisted(whitelisted_chats, update.chat_id)
    /\ last.handler = "process_gemini"
    /\ last.ret = "ignored"
    /\ messages = <<>>
    /\ tasks = <<>>

-----------------------------------------------------------------------------
(* The trigger in its own context *)

\* process_gemini has stored the trigger, retrieved the context, built the
\* prompt and is suspended in the AI call
SentToAI ==
    /\ prompt.pc = "process_gemini"
    /\ last.handler = "process_gemini"
    /\ last.ret = "thinking"

\* C32: process_gemini stores the triggering message and retrieves the
\* history in one step, so with a window of at least 1 the newest record of
\* the recent tier of the context it sends is the triggering message: the
\* newest record of the log, first of the rows retrieved and last line of
\* the history, which the separator and the query follow.
C32_TriggerIsNewestOfContext ==
    SentToAI =>
        LET trigger == messages[Len(messages)]
            lines == LinesIn(prompt.history)
        IN  /\ last.limit >= 1
            /\ IsTriggerRecord(trigger, last.chat_id)
            /\ trigger.id = sqlite_sequence
            /\ tasks[Len(tasks)].trigger = trigger.id
            /\ RecentTier # <<>>
            /\ RecentTier[1] = Columns(trigger)
            /\ last.rows[1] = Columns(trigger)
            /\ lines[Len(lines)] = Line(Columns(trigger))
            /\ prompt.combined_query
                   = prompt.history \o <<Separator>> \o prompt.parsed.query

\* a trigger with the window 1 and a query, in the chat of the six varied
\* records: the context is the trigger and the two marked records
C32_Witness ==
    /\ SentToAI
    /\ Len(messages) = 7
    /\ SubSeq(messages, 1, 6) = VariedStore
    /\ last.chat_id = 42
    /\ last.limit = 1
    /\ prompt.parsed.query = <<"w">>
    /\ Len(last.rows) = 3
    /\ RecentTier = <<Columns(messages[7])>>
    /\ messages[7].content = <<"mention", messages[7].message_id>>

-----------------------------------------------------------------------------
(* The two tiers together *)

\* the records of chat c
IdsOf(c) == {i \in 1..Len(messages) : messages[i].chat_id = c}

\* the position of record i of chat c among the chat's Default and Gemini
\* records, newest first
RankInRecent(c, i) == Cardinality({j \in NormalIds(c) : j >= i})

\* C33: every record's importance is Default, Gemini or Important, so the
\* two tiers of a retrieval partition the records of the chat: with a
\* window of at least the number of Default and Gemini records of the chat,
\* the result holds every record of the chat exactly once; and a record
\* that was unpinned is in the recent tier, at the position its sequence id
\* gives it among the Default and Gemini records, whenever the window
\* reaches that far.
C33_TiersPartitionTheChat ==
    /\ \A i \in 1..Len(messages) : messages[i].important \in MessageImportance
    /\ \A c \in Chats : /\ NormalIds(c) \cup ImportantIds(c) = IdsOf(c)
                        /\ NormalIds(c) \cap ImportantIds(c) = {}
    /\ (IsRetrieval /\ last.limit >= Cardinality(NormalIds(last.chat_id))) =>
           LET c == last.chat_id
           IN  /\ Len(last.rows) = Cardinality(IdsOf(c))
               /\ {IdOf(last.rows[j]) : j \in 1..Len(last.rows)} = IdsOf(c)
               /\ \A j \in 1..Len(last.rows) :
                      last.rows[j] = Columns(messages[IdOf(last.rows[j])])
    /\ IsRetrieval =>
           \A i \in IdsOf(last.chat_id) :
               (Unpinned(messages[i]) /\ RankInRecent(last.chat_id, i) <= last.limit) =>
                   /\ ~\E j \in 1..Len(ImportantTier) : IdOf(ImportantTier[j]) = i
                   /\ RecentTier[RankInRecent(last.chat_id, i)] = Columns(messages[i])

\* the five records of which the second was marked, after its unpin, read
\* with the default window: 5, 4, 3, 2, 1
C33_Witness ==
    /\ IsRetrieval
    /\ last.chat_id = 42
    /\ last.limit = DefaultLimit
    /\ Len(messages) = 5
    /\ Unpinned(messages[2])
    /\ last.rows = <<Columns(messages[5]), Columns(messages[4]), Columns(messages[3]),
                     Columns(messages[2]), Columns(messages[1])>>

-----------------------------------------------------------------------------
(* One record for one event *)

\* no two records of the log have the same chat and the same message id
UniqueOrigin ==
    \A i, j \in 1..Len(messages) :
        i # j => <<messages[i].chat_id, messages[i].message_id>>
                     # <<messages[j].chat_id, messages[j].message_id>>

\* C34: an incoming event is stored at most once: the one handler that the
\* dispatcher runs for it appends at most one record, under the event's
\* message id and chat; so no two records of the log share the pair of chat
\* and message id, the stored answers included.
C34_EventStoredAtMostOnce ==
    /\ []UniqueOrigin
    /\ [][Handled =>
              /\ Cardinality(Appended) <= 1
              /\ \A i \in Appended :
                     /\ messages'[i].chat_id = update.chat_id
                     /\ messages'[i].message_id = next_msg_id
                     /\ next_msg_id' = next_msg_id + 1]_vars

\* two events handled in one chat: the trigger word from the owner, stored
\* by process_gemini alone, and the owner's !Гемини, stored by
\* mark_important alone
C34_Witness ==
    /\ update.pc = "handled"
    /\ update.n = 2
    /\ Len(messages) = 2
    /\ messages[1].chat_id = messages[2].chat_id
    /\ IsTriggerRecord(messages[1], update.chat_id)
    /\ messages[2].important = IMPORTANT
    /\ messages[1].message_id # messages[2].message_id

-----------------------------------------------------------------------------
(* bot.py: media_command after its "processing" reply, followed await by   *)
(* await, with the files of data/media. Several commands may be suspended  *)
(* at once; each frame of tasks holds its own pc and media_path.           *)

\* reply_msg.id of the messages the commands reply to
ReplyIds == {1, 2}

\* download_media: file_name=f"{download_dir}/photo_{message.id}.jpg"
file_name(id) == <<"data/media/photo_.jpg", id>>

\* what client.download_media does: returns None, writes an empty file,
\* writes a file, or raises
DownloadResults == {"none", "empty", "file", "raised"}

\* media_path = await download_media(client, reply_msg), up to the await of
\* the edit_text that follows it; pc names that edit_text by the outcome it
\* reports ("loaded": the file is there and the call comes next)
download_media(t, id, result) ==
    CASE result = "none" -> [t EXCEPT !.pc = "download failed"]
      [] result = "raised" -> [t EXCEPT !.pc = "raised"]
      [] result = "empty" -> [t EXCEPT !.pc = "empty file", !.media_path = file_name(id)]
      [] OTHER -> [t EXCEPT !.pc = "loaded", !.media_path = file_name(id)]

\* the directory after client.download_media
downloaded(dir, id, result) ==
    IF result \in {"empty", "file"} THEN dir \cup {file_name(id)} ELSE dir

\* os.remove of an existing file of the process's own directory
os_remove(dir, path) == dir \ {path}

\* the end of media_command without its finally clause: only the empty file
\* is removed (a variant the cleanup must reject)
media_command_without_finally(dir, t) ==
    IF t.pc = "empty file" /\ t.media_path \in dir
    THEN os_remove(dir, t.media_path) ELSE dir

\* the end of media_command for the directory: the empty file is removed
\* after its edit_text, and the finally clause removes media_path if it is
\* set and the file exists, on return and on an exception alike
media_command_finally(dir, t) ==
    LET returned == IF t.pc = "empty file" /\ t.media_path \in dir
                    THEN os_remove(dir, t.media_path) ELSE dir
    IN  IF t.media_path # None /\ t.media_path \in returned
        THEN os_remove(returned, t.media_path) ELSE returned

IsMediaFrame(i) == tasks[i].handler = "media_command"

DownloadMedia ==
    \E i \in 1..Len(tasks), id \in ReplyIds, result \in DownloadResults :
        /\ IsMediaFrame(i)
        /\ tasks[i].pc = "suspended"
        /\ tasks' = [tasks EXCEPT ![i] = download_media(@, id, result)]
        /\ media_dir' = downloaded(media_dir, id, result)
        /\ UNCHANGED <<messages, sqlite_sequence, whitelisted_chats, gemini_client,
                       next_msg_id, last, watch, capacity, call, prompt, update, bots>>

\* edit_text("Файл загружен ...") returned, and call_gemini_api is awaited,
\* or it raised, and the except clause awaits its own edit_text
FileLoaded ==
    \E i \in 1..Len(tasks), ok \in BOOLEAN :
        /\ IsMediaFrame(i)
        /\ tasks[i].pc = "loaded"
        /\ tasks' = [tasks EXCEPT ![i].pc = IF ok THEN "call" ELSE "raised"]
        /\ UNCHANGED <<messages, sqlite_sequence, whitelisted_chats, gemini_client,
                       next_msg_id, last, watch, capacity, call, prompt, update, bots,
                       media_dir>>

\* call_gemini_api returned its text, an answer or an error message (it has
\* no path on which it raises), and the edit_text of the text is awaited
CallReturned ==
    \E i \in 1..Len(tasks) :
        /\ IsMediaFrame(i)
        /\ tasks[i].pc = "call"
        /\ tasks' = [tasks EXCEPT ![i].pc = "answered"]
        /\ UNCHANGED <<messages, sqlite_sequence, whitelisted_chats, gemini_client,
                       next_msg_id, last, watch, capacity, call, prompt, update, bots,
                       media_dir>>

\* the last edit_text returned or raised: the rest of media_command with its
\* finally clause
MediaCommandFinishes ==
    \E i \in 1..Len(tasks), response \in Responses, ok \in BOOLEAN :
        /\ IsMediaFrame(i)
        /\ tasks[i].pc \in MediaOutcomes
        /\ media_command_done(i, IF ok THEN tasks[i].pc ELSE "raised", response)
        /\ media_dir' = media_command_finally(media_dir, tasks[i])
        /\ UNCHANGED <<watch, capacity, call, prompt, update, bots>>

NextMedia ==
    \/ MediaCommand
    \/ DownloadMedia
    \/ FileLoaded
    \/ CallReturned
    \/ MediaCommandFinishes

SpecMedia == InitUpload /\ [][NextMedia]_vars

\* every file of the directory is the media_path of a command still running
NoOrphanFile ==
    \A f \in media_dir : \E i \in 1..Len(tasks) : tasks[i].media_path = f

=============================================================================
